---- MODULE Spec2Model ----
(***************************************************************************)
(* State-machine model of mcp-pytest-tools: the test execution driver      *)
(* (tools/execution.py, TestExecutionTool), the request and result models  *)
(* (models.py), the output scanner (parsers/output.py), the tool base      *)
(* class (tools/base.py, BaseTool.execute) and test discovery              *)
(* (tools/discovery.py, TestDiscoveryTool).                                *)
(*                                                                         *)
(* Python values are encoded as follows: an optional value (str | None,    *)
(* list | None) is a sequence of length at most one, None == << >> and     *)
(* Some(x) == <<x>>; a str is a TLA+ string; a list[str] is a sequence of  *)
(* strings; datetime and time.time() readings are integers taken from the  *)
(* wall clock "now".                                                       *)
(***************************************************************************)
EXTENDS Integers, Sequences, FiniteSets, TLC

VARIABLES
    now,        \* the wall clock read by datetime.now() and time.time()
    call,       \* call[c]: the execute_test invocation c (arguments, locals, outcome)
    child,      \* child[c]: the child process subprocess.run started for call c
    tool,       \* the fields of the TestExecutionTool object the calls are made on
    bc_pc,      \* command-builder harness: position of the caller
    bc_path,    \* command-builder harness: the test_path argument
    bc_args,    \* command-builder harness: the caller's pytest_args list object
    bc_given,   \* command-builder harness: bc_args as it was before the first call
    bc_out,     \* command-builder harness: the vectors returned, in call order
    sc_pc,      \* output-scanner harness: how many of the two runs have completed
    sc_in,      \* output-scanner harness: what the two runs share and what each child wrote
    sc_out,     \* output-scanner harness: the outcome of each completed run, in order
    rq_pc,      \* request harness: position of the caller
    rq_in,      \* request harness: the keyword arguments given to TestExecutionRequest
    rq_out,      \* request harness: the request constructed, or the exception raised
    hd_pc,      \* result holder: position of the caller that holds a result record
    hd_built,   \* result holder: the record as execute_test built it
    hd_rec,     \* result holder: the record object as it is now
    hd_exc,     \* result holder: the exception of the last assignment, if any
    bt_pc,      \* BaseTool.execute harness: position of the execute call
    bt_name,    \* BaseTool.execute harness: self.name
    bt_kwargs,  \* BaseTool.execute harness: the keyword arguments of the caller
    bt_start,   \* BaseTool.execute harness: the local start_time
    bt_seen,    \* BaseTool.execute harness: the keyword arguments _execute received
    bt_inner,   \* BaseTool.execute harness: what _execute returned or raised
    bt_log,     \* BaseTool.execute harness: the records handed to the logger, in order
    bt_out,     \* BaseTool.execute harness: what execute returned or raised
    ds_pc,      \* discovery harness: position of the discover_tests call
    ds_in,      \* discovery harness: the arguments and what the file system says of the path
    ds_runs,    \* discovery harness: the command of every subprocess.run call, in order
    ds_child,   \* discovery harness: how the collection child ended
    ds_out,     \* discovery harness: what discover_tests returned or raised
    sv_pc,      \* server harness: position of the run coroutine
    sv_self,    \* server harness: the fields of the MCPPytestServer object
    sv_calls,   \* server harness: the register_tool calls made so far, in order
    sv_trace,   \* server harness: the calls run has made so far, in order
    sv_exc,     \* server harness: the exception run is about to leave with, if any
    sv_log,     \* server harness: the messages handed to logger.info, in order
    sv_reply    \* server harness: the last answer of a handler or an info read

vars == <<now, call, child, tool, bc_pc, bc_path, bc_args, bc_given, bc_out, sc_pc, sc_in, sc_out, rq_pc, rq_in, rq_out, hd_pc, hd_built, hd_rec, hd_exc, bt_pc, bt_name, bt_kwargs, bt_start, bt_seen, bt_inner, bt_log, bt_out, ds_pc, ds_in, ds_runs, ds_child, ds_out, sv_pc, sv_self, sv_calls, sv_trace, sv_exc, sv_log, sv_reply>>
execVars == <<now, call, child, tool>>
buildVars == <<bc_pc, bc_path, bc_args, bc_given, bc_out>>
scanVars == <<sc_pc, sc_in, sc_out>>
requestVars == <<rq_pc, rq_in, rq_out>>
holdVars == <<hd_pc, hd_built, hd_rec, hd_exc>>
baseVars == <<bt_pc, bt_name, bt_kwargs, bt_start, bt_seen, bt_inner, bt_log, bt_out>>
discVars == <<ds_pc, ds_in, ds_runs, ds_child, ds_out>>
serverVars == <<sv_pc, sv_self, sv_calls, sv_trace, sv_exc, sv_log, sv_reply>>
\* what each part of the program leaves alone; the BaseTool harness reads the
\* wall clock, so nonBaseVars leaves now out
nonExecVars == <<tool, buildVars, scanVars, requestVars, holdVars, baseVars, discVars, serverVars>>
nonBuildVars == <<execVars, scanVars, requestVars, holdVars, baseVars, discVars, serverVars>>
nonScanVars == <<execVars, buildVars, requestVars, holdVars, baseVars, discVars, serverVars>>
nonRequestVars == <<execVars, buildVars, scanVars, holdVars, baseVars, discVars, serverVars>>
nonHoldVars == <<execVars, buildVars, scanVars, requestVars, baseVars, discVars, serverVars>>
nonBaseVars == <<call, child, tool, buildVars, scanVars, requestVars, holdVars, discVars, serverVars>>
nonDiscVars == <<execVars, buildVars, scanVars, requestVars, holdVars, baseVars, serverVars>>
nonServerVars == <<execVars, buildVars, scanVars, requestVars, holdVars, baseVars, discVars>>

-----------------------------------------------------------------------------
(* Bounds of the model. *)

\* last reading of the wall clock
MaxTime == 3
\* most markers a collected test carries
MaxMarkers == 2
\* longest extra-argument list given to the command builder harness
MaxArgs == 2
\* most tests the collection child reports
MaxTests == 2
\* last reading of the wall clock while two calls run in parallel
MaxConcTime == 1

-----------------------------------------------------------------------------
(* Python values. *)

None == << >>
Some(x) == <<x>>
IsNone(o) == o = None
Get(o) == o[1]

\* Python's  x or ""  for x of type str | None.
OrEmpty(o) == IF IsNone(o) \/ Get(o) = "" THEN "" ELSE Get(o)

Digit(d) == CASE d = 0 -> "0" [] d = 1 -> "1" [] d = 2 -> "2" [] d = 3 -> "3"
              [] d = 4 -> "4" [] d = 5 -> "5" [] d = 6 -> "6" [] d = 7 -> "7"
              [] d = 8 -> "8" [] d = 9 -> "9"

RECURSIVE NatToStr(_)
NatToStr(n) == IF n < 10 THEN Digit(n) ELSE NatToStr(n \div 10) \o Digit(n % 10)

\* str(n) as an f-string renders an int.
IntToStr(n) == IF n < 0 THEN "-" \o NatToStr(-n) ELSE NatToStr(n)

\* Python's  sub in s  for strings.
Contains(s, sub) ==
    \E i \in 1..(Len(s) - Len(sub) + 1) : SubSeq(s, i, i + Len(sub) - 1) = sub

Char(s, i) == SubSeq(s, i, i)

\* Python's  s.split(sep)  for a one-character sep: the pieces between the
\* separators, empty pieces kept.
RECURSIVE SplitAt(_, _, _, _)
SplitAt(s, sep, i, cur) ==
    IF i > Len(s) THEN <<cur>>
    ELSE IF Char(s, i) = sep THEN <<cur>> \o SplitAt(s, sep, i + 1, "")
    ELSE SplitAt(s, sep, i + 1, cur \o Char(s, i))

Whitespace == {" ", "\t", "\n", "\r"}

\* Python's  s.split() : the pieces between runs of whitespace, none empty.
RECURSIVE SplitWs(_, _, _)
SplitWs(s, i, cur) ==
    LET piece == IF cur = "" THEN << >> ELSE <<cur>>
    IN  IF i > Len(s) THEN piece
        ELSE IF Char(s, i) \in Whitespace THEN piece \o SplitWs(s, i + 1, "")
        ELSE SplitWs(s, i + 1, cur \o Char(s, i))

\* Python's  s.rstrip(ch)  for a one-character ch.
RECURSIVE RStrip(_, _)
RStrip(s, ch) ==
    IF Len(s) > 0 /\ Char(s, Len(s)) = ch THEN RStrip(SubSeq(s, 1, Len(s) - 1), ch)
    ELSE s

\* Python's  s.count(sub) : occurrences that do not overlap, from position i on.
RECURSIVE CountFrom(_, _, _)
CountFrom(s, sub, i) ==
    IF i + Len(sub) - 1 > Len(s) THEN 0
    ELSE IF SubSeq(s, i, i + Len(sub) - 1) = sub
         THEN 1 + CountFrom(s, sub, i + Len(sub))
         ELSE CountFrom(s, sub, i + 1)

DigitChars == {"0", "1", "2", "3", "4", "5", "6", "7", "8", "9"}
DigitVal(ch) == CHOOSE d \in 0..9 : Digit(d) = ch
IsDigits(s) == Len(s) > 0 /\ \A i \in 1..Len(s) : Char(s, i) \in DigitChars

RECURSIVE DigitsToNat(_)
DigitsToNat(s) ==
    IF Len(s) = 0 THEN 0
    ELSE 10 * DigitsToNat(SubSeq(s, 1, Len(s) - 1)) + DigitVal(Char(s, Len(s)))

Unsigned(s) == IF Len(s) > 0 /\ Char(s, 1) \in {"+", "-"} THEN SubSeq(s, 2, Len(s)) ELSE s
Sign(s) == IF Len(s) > 0 /\ Char(s, 1) = "-" THEN -1 ELSE 1

\* Python's  int(s)  for a token without whitespace: Some(value), or None where
\* int raises ValueError. Decimal digits with an optional sign are accepted.
ParseInt(s) ==
    IF IsDigits(Unsigned(s)) THEN Some(Sign(s) * DigitsToNat(Unsigned(s))) ELSE None

\* the position of the first "." of s, or 0
DotAt(s) == IF \E i \in 1..Len(s) : Char(s, i) = "."
            THEN CHOOSE i \in 1..Len(s) : Char(s, i) = "." /\ \A j \in 1..(i - 1) : Char(s, j) # "."
            ELSE 0

\* Python's  float(s)  for a token without whitespace: Some(value in
\* thousandths, further digits dropped), or None where float raises
\* ValueError. Decimal notation with an optional sign is accepted.
ParseFloat(s) ==
    LET u == Unsigned(s)
        d == DotAt(u)
        whole == IF d = 0 THEN u ELSE SubSeq(u, 1, d - 1)
        frac == IF d = 0 THEN "" ELSE SubSeq(u, d + 1, Len(u))
        frac3 == SubSeq(frac \o "000", 1, 3)
    IN  IF /\ whole = "" \/ IsDigits(whole)
           /\ frac = "" \/ IsDigits(frac)
           /\ whole # "" \/ frac # ""
        THEN Some(Sign(s) * (1000 * DigitsToNat(whole) + DigitsToNat(frac3)))
        ELSE None

-----------------------------------------------------------------------------
(* Inputs drawn by the environment. *)

Calls == {1}

TestPaths == {"", "a/b.py::t", "tests/test_example.py"}
Timeouts == {1, 30}
ExtraArgTokens == {"-x", "--tb=short", "-k"}
RECURSIVE SeqsUpTo(_, _)
SeqsUpTo(S, n) ==
    IF n = 0 THEN {<< >>}
    ELSE LET shorter == SeqsUpTo(S, n - 1)
         IN shorter \cup {Append(s, x) : s \in {t \in shorter : Len(t) = n - 1}, x \in S}
\* pytest_args as _build_command receives it: None or a list of up to MaxArgs tokens
BuildArgs == {None} \cup {Some(a) : a \in SeqsUpTo(ExtraArgTokens, MaxArgs)}
\* targets given to _build_command, well-formed or not
BuildPaths == {"", "a/b.py::t", "tests/test_example.py", "no such file"}
\* pytest_args as execute_test receives it: None, [] or a list
ExecArgs == {None, Some(<< >>), Some(<<"-x", "--tb=short">>)}

\* What a pytest child can leave behind: its return code (negative: killed by
\* that signal) and the text on its two streams.
ReturnCodes == {-1, 0, 1, 2, 4, 7}
ChildOutputs == { [out |-> "", err |-> ""],
                  [out |-> "1 passed in 0.01s", err |-> ""],
                  [out |-> "FAILED a/b.py::t", err |-> "error: boom"] }
\* Texts for the scanner: summary lines it reads, lines whose count or
\* duration is no number, tokens at the ends of a line, failure and error marks.
ScanOutputs == { [out |-> "", err |-> ""],
                 [out |-> "1 passed in 0.01s", err |-> ""],
                 [out |-> "FAILED a/b.py::t\n1 failed, 2 passed in 1.5s", err |-> "error: boom"],
                 [out |-> "x passed in ys", err |-> ""],
                 [out |-> "passed in", err |-> "ERROR"],
                 [out |-> "no tests ran in", err |-> "error"] }
\* Targets given to the request model: omitted, empty, one character, a node id
RequestPaths == {None, Some(""), Some("t"), Some("tests/test_example.py::test_function")}
\* Timeouts given to the request model, in thousandths: omitted, the limits
\* and their neighbours, numbers with a fractional part, a negative number
RequestTimeouts == {None} \cup {Some(t) : t \in {-1000, 0, 500, 1000, 1500, 60000, 3600000, 3600500, 3601000}}
\* Names of tools built on BaseTool
ToolNames == {"mock_tool", "failing_tool"}
\* Keyword arguments given to BaseTool.execute: none, one, two
ToolKwargs == { {}, {<<"should_fail", "True">>},
                {<<"param1", "value1">>, <<"param2", "value2">>} }
\* What _execute can do with the keyword arguments kw: return a value, raise
\* one of the tool's own errors, raise another Exception, or be interrupted by
\* an exception that derives from BaseException only.
InnerOutcomes(kw) ==
    { [ret |-> Some(v), exc |-> None] :
        v \in {[result |-> "success", input |-> kw], [result |-> "", input |-> {}]} }
    \cup { [ret |-> None, exc |-> Some([type |-> t, message |-> m, cause |-> None])] :
             t \in {"TestExecutionError", "McpPytestError", "ValueError", "CancelledError"},
             m \in {"Mock execution failed", ""} }
\* Calls of discover_tests: the arguments, whether the path exists, and what
\* stat reports for it ("ok" or an errno). A name longer than the file system
\* allows and a path below a directory that may not be searched do not exist
\* either, but stat fails for them with another errno than ENOENT.
DiscoverInputs ==
    { [path |-> p[1], exists |-> p[2], stat |-> p[3], pattern |-> k, markers |-> m] :
        p \in { <<"tests", TRUE, "ok">>,
                 <<"tests/test_a.py", TRUE, "ok">>,
                 <<"/nonexistent/path", FALSE, "ENOENT">>,
                 <<"tests/test_a.py/x", FALSE, "ENOTDIR">>,
                 <<"tests/name_longer_than_NAME_MAX", FALSE, "ENAMETOOLONG">>,
                 <<"/locked/tests", FALSE, "EACCES">> },
        k \in {None, Some(""), Some("login")},
        m \in {None, Some("slow")} }
\* Tests as the runner reports them: dicts whose keys may be missing (None)
CollectedTests ==
    { [ nodeid |-> Some("tests/test_a.py::test_one"), id |-> None,
        path |-> Some("tests/test_a.py"), class |-> None, name |-> Some("test_one"),
        markers |-> Some(<<"slow">>) ],
      [ nodeid |-> Some("tests/test_a.py::TestX::test_two"), id |-> Some("custom"),
        path |-> Some("tests/test_a.py"), class |-> Some("TestX"), name |-> Some("test_two"),
        markers |-> Some(<<"slow", "db">>) ],
      [ nodeid |-> Some("tests/test_a.py::TestX::test_three"), id |-> None,
        path |-> Some("tests/test_a.py"), class |-> Some("TestX"), name |-> Some("test_three"),
        markers |-> Some(<<"api">>) ],
      [ nodeid |-> Some("tests/test_b.py::test_four"), id |-> None,
        path |-> Some("tests/test_b.py"), class |-> None, name |-> Some("test_four"),
        markers |-> Some(<< >>) ],
      [ nodeid |-> None, id |-> None, path |-> None, class |-> None, name |-> None,
        markers |-> None ] }
\* How the collection child ends: it cannot be started ("launch_error"), it
\* meets the 30 second limit ("timeout"), or it exits by itself with an exit
\* code, having written bytes that are no text ("undecodable") or a stderr
\* text and a stdout ("exit"). The stdout is blank, no JSON ("invalid"), no
\* JSON and nested deeper than the interpreter recurses ("too_deep"), a JSON
\* scalar, a JSON object without "tests" or with "tests" null, a JSON array of
\* numbers, or a JSON object with "tests" or a JSON array that lists test
\* dicts (tests).
CollectOutcomes ==
    { [kind |-> k, returncode |-> 0, stderr |-> "", stdout |-> "blank", tests |-> << >>] :
        k \in {"launch_error", "timeout"} }
    \cup { [kind |-> "undecodable", returncode |-> rc, stderr |-> "", stdout |-> "blank", tests |-> << >>] :
             rc \in {0, 1} }
    \cup { [kind |-> "exit", returncode |-> rc, stderr |-> e, stdout |-> "blank", tests |-> << >>] :
             rc \in {-9, 1, 2, 5}, e \in {"", "usage error"} }
    \cup { [kind |-> "exit", returncode |-> 0, stderr |-> e, stdout |-> s, tests |-> << >>] :
             s \in {"blank", "invalid", "too_deep", "scalar", "object", "object_tests_null",
                    "array_of_numbers"},
             e \in {"", "warning"} }
    \cup { [kind |-> "exit", returncode |-> 0, stderr |-> "", stdout |-> s, tests |-> t] :
             s \in {"object_tests", "array"}, t \in SeqsUpTo(CollectedTests, MaxTests) }
\* OSError subclasses Popen raises when the executable cannot be started
LaunchErrors == {"FileNotFoundError", "PermissionError"}

-----------------------------------------------------------------------------
(* models.py: TestExecutionResult *)

allowed_statuses == {"passed", "failed", "error", "timeout", "skipped"}

validate_status(v) == v \in allowed_statuses

TestExecutionResult(test_path, status, exit_code, stdout, stderr, duration, started_at, completed_at, error_message) ==
    [ test_path |-> test_path, status |-> status, exit_code |-> exit_code,
      stdout |-> stdout, stderr |-> stderr, duration |-> duration,
      started_at |-> started_at, completed_at |-> completed_at,
      error_message |-> error_message ]

-----------------------------------------------------------------------------
(* parsers/output.py: PytestOutputParser *)

\* Lines 42-45 with the except clause left out: a token that is no integer
\* raises ValueError.
TryPassedCount_NoExcept(token, acc) ==
    IF IsNone(ParseInt(token)) THEN [acc EXCEPT !.exc = Some("ValueError")]
    ELSE [acc EXCEPT !.passed = Get(ParseInt(token))]

\* Lines 42-45: result["passed"] = int(parts[i - 1]), a ValueError ignored.
TryPassedCount(token, acc) ==
    IF IsNone(ParseInt(token)) THEN acc
    ELSE [acc EXCEPT !.passed = Get(ParseInt(token))]

\* Lines 47-51: result["duration"] = float(duration_str), a ValueError ignored.
TryDuration(token, acc) ==
    LET duration_str == RStrip(token, "s")
    IN  IF IsNone(ParseFloat(duration_str)) THEN acc
        ELSE [acc EXCEPT !.duration = Get(ParseFloat(duration_str))]

\* Lines 40-51: the loop over the parts of one summary line, from part i on;
\* an exception that escapes ends it.
RECURSIVE ScanParts(_, _, _)
ScanParts(parts, i, acc) ==
    IF i > Len(parts) \/ ~IsNone(acc.exc) THEN acc
    ELSE LET a1 == IF parts[i] = "passed" /\ i > 1
                   THEN TryPassedCount(parts[i - 1], acc) ELSE acc
             a2 == IF IsNone(a1.exc) /\ parts[i] = "in" /\ i < Len(parts)
                   THEN TryDuration(parts[i + 1], a1) ELSE a1
         IN  ScanParts(parts, i + 1, a2)

\* Lines 37-51: the loop over the lines of stdout, from line k on.
RECURSIVE ScanLines(_, _, _)
ScanLines(lines, k, acc) ==
    IF k > Len(lines) \/ ~IsNone(acc.exc) THEN acc
    ELSE ScanLines(lines, k + 1,
            IF Contains(lines[k], "passed") /\ Contains(lines[k], " in ")
            THEN ScanParts(SplitWs(lines[k], 1, ""), 1, acc)
            ELSE acc)

\* Lines 13-61. duration is in thousandths of a second; exc is the exception
\* that leaves the function, if any.
parse_test_output(stdout, stderr) ==
    LET result == [ passed |-> 0, failed |-> 0, skipped |-> 0, errors |-> 0,
                    duration |-> 0, details |-> << >>, exc |-> None ]
        r1 == IF Contains(stdout, "passed")
              THEN ScanLines(SplitAt(stdout, "\n", 1, ""), 1, result)
              ELSE result
        r2 == IF Contains(stdout, "FAILED") \/ Contains(stdout, "failed")
              THEN [r1 EXCEPT !.failed =
                      IF CountFrom(stdout, "FAILED", 1) # 0
                      THEN CountFrom(stdout, "FAILED", 1) ELSE 1]
              ELSE r1
        r3 == IF Contains(stdout, "ERROR") \/ Contains(stderr, "error")
              THEN [r2 EXCEPT !.errors = 1]
              ELSE r2
    IN  IF ~IsNone(r1.exc) THEN r1 ELSE r3

-----------------------------------------------------------------------------
(* tools/execution.py: TestExecutionTool *)

\* _build_command with the extra arguments put before the target.
_build_command_ExtrasFirst(test_path, pytest_args) ==
    LET extras == IF IsNone(pytest_args) THEN << >> ELSE Get(pytest_args)
    IN  [ret |-> <<"python", "-m", "pytest", "-v">> \o extras \o <<test_path>>,
         exc |-> None, pytest_args |-> pytest_args]

\* Lines 128-137. The value is what the call leaves behind: the list it
\* returns (ret), or the exception it raises (exc), and the caller's
\* pytest_args object as it is afterwards (cmd is a new list, and extend
\* reads its argument without changing it).
_build_command(test_path, pytest_args) ==
    LET cmd == <<"python", "-m", "pytest", "-v", test_path>>
    IN  IF ~IsNone(pytest_args) /\ Get(pytest_args) # << >>
        THEN [ret |-> cmd \o Get(pytest_args), exc |-> None, pytest_args |-> pytest_args]
        ELSE [ret |-> cmd, exc |-> None, pytest_args |-> pytest_args]

\* StatusFromExitCode without the branch for exit code 4.
StatusFromExitCode_NoCode4(returncode) ==
    IF returncode = 0 THEN [status |-> "passed", error_message |-> None]
    ELSE IF returncode = 1 THEN [status |-> "failed", error_message |-> None]
    ELSE [status |-> "error",
          error_message |-> Some("Unexpected exit code: " \o IntToStr(returncode))]

\* StatusFromExitCode with a skipped status for the signal exit code -1.
StatusFromExitCode_SkippedOnSignal(returncode) ==
    IF returncode = 0 THEN [status |-> "passed", error_message |-> None]
    ELSE IF returncode = 1 THEN [status |-> "failed", error_message |-> None]
    ELSE IF returncode = -1 THEN [status |-> "skipped", error_message |-> None]
    ELSE [status |-> "error",
          error_message |-> Some("Unexpected exit code: " \o IntToStr(returncode))]

\* Lines 99-110: the status and the message the exit code alone decides.
StatusFromExitCode(returncode) ==
    IF returncode = 0 THEN [status |-> "passed", error_message |-> None]
    ELSE IF returncode = 1 THEN [status |-> "failed", error_message |-> None]
    ELSE IF returncode = 4
    THEN [status |-> "error",
          error_message |-> Some("No tests collected or test not found")]
    ELSE [status |-> "error",
          error_message |-> Some("Unexpected exit code: " \o IntToStr(returncode))]

\* Line 125: the message kept in the result.
ResultErrorMessage(status, error_message) ==
    IF status = "error" THEN error_message ELSE None

\* RunArgs with capture_output=True written in both branches.
RunArgs_AlwaysCapture(cmd, capture_output, timeout) ==
    [cmd |-> cmd, capture_output |-> TRUE, text |-> TRUE, timeout |-> timeout]

\* The keyword arguments of the one subprocess.run call (lines 69-71, 75-77).
RunArgs(cmd, capture_output, timeout) ==
    [cmd |-> cmd, capture_output |-> capture_output, text |-> TRUE, timeout |-> timeout]

\* subprocess.run handing every call the streams of the first call's child, as
\* if the captured output were kept in one place shared by the calls.
CompletedProcess_SharedStreams(run, ch) ==
    [ returncode |-> ch.returncode,
      stdout |-> IF run.capture_output THEN Some(child[1].out) ELSE None,
      stderr |-> IF run.capture_output THEN Some(child[1].err) ELSE None ]

\* What subprocess.run hands back for an exited child: the streams are text
\* when they were captured and None when the child inherited the parent's.
CompletedProcess(run, ch) ==
    [ returncode |-> ch.returncode,
      stdout |-> IF run.capture_output THEN Some(ch.out) ELSE None,
      stderr |-> IF run.capture_output THEN Some(ch.err) ELSE None ]

\* ReportedStreams with the two captured streams exchanged.
ReportedStreams_Swapped(capture_output, result) ==
    IF capture_output
    THEN [stdout |-> OrEmpty(result.stderr), stderr |-> OrEmpty(result.stdout)]
    ELSE [stdout |-> "", stderr |-> ""]

\* Lines 68-79: stdout and stderr as the result reports them.
ReportedStreams(capture_output, result) ==
    IF capture_output
    THEN [stdout |-> OrEmpty(result.stdout), stderr |-> OrEmpty(result.stderr)]
    ELSE [stdout |-> "", stderr |-> ""]

\* A wait with a timeout that leaves the child alone when it expires
\* (Popen.wait(timeout) in place of subprocess.run).
ChildAfterTimeout_NoKill(ch) == ch

\* subprocess.run(timeout=...) on expiry: the child is killed and waited for
\* before TimeoutExpired is raised.
ChildAfterTimeout(ch) == [ch EXCEPT !.state = "killed"]

\* TimeoutResult reporting the measured time instead of the configured timeout.
TimeoutResult_Measured(test_path, timeout, started_at, completed_at) ==
    TestExecutionResult(test_path, "timeout", -1, "", "",
        completed_at - started_at, started_at, completed_at,
        Some("Test execution timed out after " \o IntToStr(timeout) \o " seconds"))

\* Lines 83-95: the result built in the TimeoutExpired handler.
TimeoutResult(test_path, timeout, started_at, completed_at) ==
    TestExecutionResult(test_path, "timeout", -1, "", "", timeout, started_at,
        completed_at,
        Some("Test execution timed out after " \o IntToStr(timeout) \o " seconds"))

\* The calls made in parallel, from different threads.
ConcCalls == {1, 2}
ConcPaths == {"a/b.py::t", "tests/test_example.py"}
ConcReturnCodes == {0, 1, 7}

\* CompletedResult that reports the child's stderr as the error message.
CompletedResult_StderrMessage(c, result, duration, completed_at) ==
    LET streams == ReportedStreams(c.capture_output, result)
        cls == StatusFromExitCode(result.returncode)
    IN  TestExecutionResult(c.test_path, cls.status, result.returncode,
            streams.stdout, streams.stderr, duration, c.started_at, completed_at,
            IF streams.stderr # "" THEN Some(streams.stderr) ELSE cls.error_message)

\* Lines 97-126: the result built after subprocess.run returned.
CompletedResult(c, result, duration, completed_at) ==
    LET streams == ReportedStreams(c.capture_output, result)
        cls == StatusFromExitCode(result.returncode)
    IN  TestExecutionResult(c.test_path, cls.status, result.returncode,
            streams.stdout, streams.stderr, duration, c.started_at, completed_at,
            ResultErrorMessage(cls.status, cls.error_message))

NoChild == [state |-> "none", out |-> "", err |-> "", returncode |-> 0]

IdleCall ==
    [ pc |-> "idle", test_path |-> "", timeout |-> 0, capture_output |-> TRUE,
      pytest_args |-> None, started_at |-> 0, start_time |-> 0, cmd |-> << >>,
      run_calls |-> << >>, result |-> None, returns |-> 0, exception |-> None ]

\* Lines 59-66 and the call of subprocess.run: the arguments are bound, the
\* clock is read, the command is built and the run is requested.
Entered(test_path, timeout, capture_output, pytest_args) ==
    LET cmd == _build_command(test_path, pytest_args).ret
    IN  [ IdleCall EXCEPT
            !.test_path = test_path, !.timeout = timeout,
            !.capture_output = capture_output, !.pytest_args = pytest_args,
            !.started_at = now, !.start_time = now, !.cmd = cmd,
            !.run_calls = <<RunArgs(cmd, capture_output, timeout)>> ]

\* exceptions.py: the tool's own error types, McpPytestError and its subclasses.
McpPytestErrorTypes ==
    { "McpPytestError", "TestDiscoveryError", "TestExecutionError",
      "TestTimeoutError", "ConfigurationError", "PytestNotFoundError",
      "InvalidPathError", "OutputParsingError" }
\* The builtin classes a tool can raise besides: CancelledError and
\* KeyboardInterrupt derive from BaseException only.
ExceptionClasses == McpPytestErrorTypes \cup {"ValueError", "RuntimeError"}
BaseExceptionClasses == ExceptionClasses \cup {"CancelledError", "KeyboardInterrupt"}

\* isinstance(e, cls) for cls one of McpPytestError, Exception, BaseException
isinstance(e, cls) ==
    CASE cls = "McpPytestError" -> e.type \in McpPytestErrorTypes
      [] cls = "Exception" -> e.type \in ExceptionClasses
      [] cls = "BaseException" -> e.type \in BaseExceptionClasses

\* str(e): McpPytestError.__str__ returns the message (exceptions.py 28-30),
\* as does the builtin for an exception with one argument.
str(e) == e.message

\* Line 53-55.
StartRecord(name, kwargs) ==
    [ level |-> "INFO", message |-> "Starting execution",
      context |-> [tool |-> name, parameters |-> kwargs] ]

\* Lines 60-63.
CompletedRecord(name, duration_ms) ==
    [ level |-> "INFO", message |-> "Execution completed",
      context |-> [tool |-> name, duration_ms |-> duration_ms] ]

\* Lines 67-75.
FailedRecord(name, duration_ms, e) ==
    [ level |-> "ERROR", message |-> "Execution failed",
      context |-> [ tool |-> name, duration_ms |-> duration_ms,
                    error_type |-> e.type, error_message |-> str(e) ] ]

\* execute_after that wraps every exception of _execute, its own included.
execute_after_WrapsAll(name, start_time, t, inner) ==
    LET duration_ms == (t - start_time) * 1000
    IN  IF IsNone(inner.exc)
        THEN [ log |-> <<CompletedRecord(name, duration_ms)>>, out |-> inner ]
        ELSE LET e == Get(inner.exc)
             IN  IF ~isinstance(e, "Exception")
                 THEN [ log |-> << >>, out |-> inner ]
                 ELSE [ log |-> <<FailedRecord(name, duration_ms, e)>>,
                        out |-> [ ret |-> None,
                                  exc |-> Some([ type |-> "McpPytestError",
                                                 message |-> "Tool " \o name \o " execution failed: " \o str(e),
                                                 cause |-> Some(e) ]) ] ]

\* base.py 58-82: execute from the end of _execute to its own end, at clock
\* reading t. inner is what _execute did: ret its value, or exc its
\* exception. The result is the records logged and what execute does (out).
\* "except Exception" (line 66) lets an exception that derives from
\* BaseException only pass through, unlogged.
execute_after(name, start_time, t, inner) ==
    LET duration_ms == (t - start_time) * 1000
    IN  IF IsNone(inner.exc)
        THEN [ log |-> <<CompletedRecord(name, duration_ms)>>, out |-> inner ]
        ELSE LET e == Get(inner.exc)
             IN  IF ~isinstance(e, "Exception")
                 THEN [ log |-> << >>, out |-> inner ]
                 ELSE [ log |-> <<FailedRecord(name, duration_ms, e)>>,
                        out |-> IF isinstance(e, "McpPytestError")
                                THEN inner
                                ELSE [ ret |-> None,
                                       exc |-> Some([ type |-> "McpPytestError",
                                                      message |-> "Tool " \o name \o " execution failed: " \o str(e),
                                                      cause |-> Some(e) ]) ] ]

-----------------------------------------------------------------------------
(* tools/discovery.py: TestDiscoveryTool. A dict whose keys are known only  *)
(* when it is built is a function on the set of its keys.                   *)

\* Line 58-59: Path(path).exists(). stat succeeds, or fails with an errno:
\* exists() answers False for a path that is not there (ENOENT, ENOTDIR,
\* EBADF, ELOOP) and lets every other OSError out.
Path_exists(stat) ==
    IF stat = "ok" THEN [ret |-> TRUE, exc |-> None]
    ELSE IF stat \in {"ENOENT", "ENOTDIR", "EBADF", "ELOOP"} THEN [ret |-> FALSE, exc |-> None]
    ELSE [ret |-> FALSE, exc |-> Some([type |-> "OSError", message |-> stat])]

\* a str | None argument that is neither None nor empty
Truthy(opt) == ~IsNone(opt) /\ Get(opt) # ""

\* Lines 91-108: the collection command.
CollectCommand(path, pattern, markers) ==
    <<"python", "-m", "pytest", "--collect-only", "--quiet", "--json-report",
      "--json-report-file=/dev/stdout", path>>
        \o (IF Truthy(pattern) THEN <<"-k", Get(pattern)>> ELSE << >>)
        \o (IF Truthy(markers) THEN <<"-m", Get(markers)>> ELSE << >>)

\* NormalizeTest that writes the nodeid over an id already present.
NormalizeTest_Overwrites(t) ==
    IF ~IsNone(t.nodeid) THEN [t EXCEPT !.id = t.nodeid] ELSE t

\* Lines 138-140: a test with a nodeid and no id gets the nodeid as its id.
NormalizeTest(t) ==
    IF ~IsNone(t.nodeid) /\ IsNone(t.id) THEN [t EXCEPT !.id = t.nodeid] ELSE t

\* Line 125: json.loads on a stdout that is not blank. It returns the value
\* (data names its kind), raises JSONDecodeError for a text that is no JSON,
\* and RecursionError for a text nested deeper than the interpreter recurses.
json_loads(stdout) ==
    CASE stdout = "invalid" ->
           [data |-> "", exc |-> Some([type |-> "JSONDecodeError", message |-> "Expecting value"])]
      [] stdout = "too_deep" ->
           [data |-> "", exc |-> Some([type |-> "RecursionError", message |-> "maximum recursion depth exceeded"])]
      [] OTHER -> [data |-> stdout, exc |-> None]

\* Lines 122-135: the value of "tests" after the inner try statement. A blank
\* stdout gives the empty list; a JSONDecodeError of json.loads is caught
\* (lines 132-133) and gives the empty list, any other exception leaves the
\* statement; a dict with "tests" gives data["tests"], a list gives itself,
\* anything else gives the empty list. iterable is FALSE for a value the loop
\* of lines 138-140 cannot walk (None, or a list of numbers).
LoadTests(o) ==
    IF o.stdout = "blank" THEN [tests |-> << >>, iterable |-> TRUE, exc |-> None]
    ELSE LET r == json_loads(o.stdout)
         IN  IF ~IsNone(r.exc) /\ Get(r.exc).type = "JSONDecodeError"
             THEN [tests |-> << >>, iterable |-> TRUE, exc |-> None]
             ELSE IF ~IsNone(r.exc) THEN [tests |-> << >>, iterable |-> TRUE, exc |-> r.exc]
             ELSE IF r.data \in {"object_tests", "array"}
             THEN [tests |-> o.tests, iterable |-> TRUE, exc |-> None]
             ELSE IF r.data \in {"object_tests_null", "array_of_numbers"}
             THEN [tests |-> << >>, iterable |-> FALSE, exc |-> None]
             ELSE [tests |-> << >>, iterable |-> TRUE, exc |-> None]

\* Lines 111-145: _collect_tests from the end of the child: o is how it ended.
\* subprocess.run (line 112) raises the OSError of a child that cannot be
\* started and the UnicodeDecodeError of output that is no text; only
\* TimeoutExpired is caught (line 113). The handler of line 144 turns a
\* JSONDecodeError that leaves lines 122-142 into a RuntimeError.
_collect_tests(o) ==
    CASE o.kind = "launch_error" ->
           [ret |-> None, exc |-> Some([type |-> "FileNotFoundError", message |-> "python"])]
      [] o.kind = "timeout" ->
           [ret |-> None, exc |-> Some([type |-> "RuntimeError", message |-> "Test collection timed out"])]
      [] o.kind = "undecodable" ->
           [ret |-> None, exc |-> Some([type |-> "UnicodeDecodeError", message |-> "invalid start byte"])]
      [] o.kind = "exit" /\ o.returncode # 0 ->
           [ ret |-> None,
             exc |-> Some([ type |-> "RuntimeError",
                            message |-> "Failed to collect tests: "
                                \o (IF o.stderr # "" THEN o.stderr ELSE "Unknown collection error") ]) ]
      [] OTHER ->
           LET l == LoadTests(o)
           IN  IF ~IsNone(l.exc)
               THEN IF Get(l.exc).type = "JSONDecodeError"
                    THEN [ ret |-> None,
                           exc |-> Some([ type |-> "RuntimeError",
                                          message |-> "Failed to parse pytest output: "
                                              \o Get(l.exc).message ]) ]
                    ELSE [ret |-> None, exc |-> l.exc]
               ELSE IF ~l.iterable
               THEN [ret |-> None, exc |-> Some([type |-> "TypeError", message |-> "not iterable"])]
               ELSE [ ret |-> Some([i \in 1..Len(l.tests) |-> NormalizeTest(l.tests[i])]),
                      exc |-> None ]

\* FileOf with the empty text for a test without a path.
FileOf_NoDefault(t) == IF IsNone(t.path) THEN "" ELSE Get(t.path)
\* test.get("path", "unknown")
FileOf(t) == IF IsNone(t.path) THEN "unknown" ELSE Get(t.path)
\* A test that is never taken for a member of a class.
HasClass_Never(t) == FALSE
\* "if test_class:" (line 169)
HasClass(t) == Truthy(t.class)
\* Lines 174-180 and 189-195: the entry of one test.
TestEntry(t) ==
    [ name |-> OrEmpty(t.name), id |-> OrEmpty(t.id),
      markers |-> IF IsNone(t.markers) THEN << >> ELSE Get(t.markers) ]
Entries(s) == [i \in 1..Len(s) |-> TestEntry(s[i])]
SeqRange(s) == {s[i] : i \in 1..Len(s)}

\* Lines 147-203: the tests by file, then standalone or by class, in the
\* order collected; the markers of a class are a set turned into a list
\* (lines 183-184, 199-201), whose order is not determined: kept as a set.
_format_hierarchy(tests) ==
    [ f \in {FileOf(t) : t \in SeqRange(tests)} |->
        LET InFile(t) == FileOf(t) = f
            Standalone(t) == InFile(t) /\ ~HasClass(t)
            inFile == SelectSeq(tests, InFile)
        IN  [ functions |-> Entries(SelectSeq(tests, Standalone)),
              classes |->
                [ k \in {Get(t.class) : t \in {u \in SeqRange(inFile) : HasClass(u)}} |->
                    LET InClass(t) == InFile(t) /\ HasClass(t) /\ Get(t.class) = k
                        members == SelectSeq(tests, InClass)
                    IN  [ tests |-> Entries(members),
                          markers |-> UNION {SeqRange(TestEntry(t).markers) : t \in SeqRange(members)} ] ] ] ]

\* Lines 205-233.
_generate_summary(tests) ==
    LET allMarkers == UNION {SeqRange(TestEntry(t).markers) : t \in SeqRange(tests)}
        files == {Get(t.path) : t \in {u \in SeqRange(tests) : ~IsNone(u.path)}}
    IN  [ total |-> Len(tests),
          by_marker |-> [ m \in allMarkers |->
              Cardinality({<<i, j>> \in (1..Len(tests)) \X (1..MaxMarkers) :
                  /\ j <= Len(TestEntry(tests[i]).markers)
                  /\ TestEntry(tests[i]).markers[j] = m}) ],
          files |-> files,
          file_count |-> Cardinality(files) ]

\* Lines 57-60: discover_tests up to the call of _collect_tests.
discover_tests_check(path, stat) ==
    LET e == Path_exists(stat)
    IN  IF ~IsNone(e.exc) THEN e.exc
        ELSE IF ~e.ret
        THEN Some([type |-> "ValueError", message |-> "Path does not exist: " \o path])
        ELSE None

\* Lines 63-71: discover_tests from the end of the collection child.
discover_tests_after(o) ==
    LET c == _collect_tests(o)
    IN  IF ~IsNone(c.exc) THEN c
        ELSE LET tests == Get(c.ret)
             IN  [ ret |-> Some([ tests |-> _format_hierarchy(tests),
                                  summary |-> _generate_summary(tests),
                                  total_count |-> Len(tests) ]),
                   exc |-> None ]

\* TestExecutionRequest without the upper limit of the timeout.
TestExecutionRequest_NoUpperLimit(kw) ==
    LET invalid == [ret |-> None, exc |-> Some("ValidationError")]
    IN  IF IsNone(kw.test_path) \/ Len(OrEmpty(kw.test_path)) < 1 THEN invalid
        ELSE IF ~IsNone(kw.timeout) /\ (Get(kw.timeout) % 1000 # 0 \/ Get(kw.timeout) \div 1000 < 1)
        THEN invalid
        ELSE [ ret |-> Some([ test_path |-> Get(kw.test_path),
                              timeout |-> IF IsNone(kw.timeout) THEN 30 ELSE Get(kw.timeout) \div 1000,
                              capture_output |-> IF IsNone(kw.capture_output) THEN TRUE ELSE Get(kw.capture_output),
                              pytest_args |-> IF IsNone(kw.pytest_args) THEN << >> ELSE Get(kw.pytest_args) ]),
               exc |-> None ]

\* models.py 95-111: TestExecutionRequest(**kw). A keyword is given (Some) or
\* omitted (None); a timeout is given in thousandths, so that a number with a
\* fractional part can be given. test_path is required and has min_length 1;
\* timeout is an int with ge=1 and le=3600; an omitted field takes its default.
TestExecutionRequest(kw) ==
    LET invalid == [ret |-> None, exc |-> Some("ValidationError")]
    IN  IF IsNone(kw.test_path) \/ Len(OrEmpty(kw.test_path)) < 1 THEN invalid
        ELSE IF ~IsNone(kw.timeout)
                /\ (Get(kw.timeout) % 1000 # 0 \/ Get(kw.timeout) \div 1000 < 1
                    \/ Get(kw.timeout) \div 1000 > 3600)
        THEN invalid
        ELSE [ ret |-> Some([ test_path |-> Get(kw.test_path),
                              timeout |-> IF IsNone(kw.timeout) THEN 30 ELSE Get(kw.timeout) \div 1000,
                              capture_output |-> IF IsNone(kw.capture_output) THEN TRUE ELSE Get(kw.capture_output),
                              pytest_args |-> IF IsNone(kw.pytest_args) THEN << >> ELSE Get(kw.pytest_args) ]),
               exc |-> None ]

\* models.py 114-136: TestExecutionResult states no model_config, so the
\* BaseModel defaults apply: the model is not frozen and an assignment is not
\* validated.
TestExecutionResult_frozen == FALSE

\* BaseModel.__setattr__ on a result record: r.field = value. ret is the
\* record object after the statement, exc the exception it raised.
TestExecutionResult_setattr(r, field, value) ==
    IF TestExecutionResult_frozen
    THEN [ret |-> r, exc |-> Some("ValidationError")]
    ELSE [ret |-> [r EXCEPT ![field] = value], exc |-> None]

\* Pydantic validates the record when it is constructed (models.py 129-136):
\* a rejected status raises instead of returning.
Return(c, r) ==
    IF validate_status(r.status)
    THEN [c EXCEPT !.pc = "returned", !.result = Some(r), !.returns = c.returns + 1]
    ELSE [c EXCEPT !.pc = "raised", !.exception = Some("ValidationError")]

\* Lines 139-141.
_parse_output(stdout, stderr) == parse_test_output(stdout, stderr)

\* Lines 72-81 and 97-126: execute_test from the return of subprocess.run to
\* its own return; the parsed output is dropped (line 114), an exception of
\* the parser would leave execute_test.
Completed(c, result, duration, completed_at) ==
    LET streams == ReportedStreams(c.capture_output, result)
        parsed == _parse_output(streams.stdout, streams.stderr)
    IN  IF ~IsNone(parsed.exc)
        THEN [c EXCEPT !.pc = "raised", !.exception = parsed.exc]
        ELSE Return(c, CompletedResult(c, result, duration, completed_at))

\* execute_test is called and the child is started; the caller now blocks.
SpawnWith(c, test_path, timeout, capture_output, pytest_args) ==
    /\ call[c].pc = "idle"
    /\ call' = [call EXCEPT ![c] =
            [Entered(test_path, timeout, capture_output, pytest_args)
                EXCEPT !.pc = "waiting"]]
    /\ child' = [child EXCEPT ![c] = [NoChild EXCEPT !.state = "running"]]
    /\ UNCHANGED <<now, nonExecVars>>

Spawn(c) ==
    \E test_path \in TestPaths, timeout \in Timeouts,
       capture_output \in BOOLEAN, pytest_args \in ExecArgs :
        SpawnWith(c, test_path, timeout, capture_output, pytest_args)

\* execute_test is called and the operating system cannot start the child:
\* subprocess.run raises an OSError, which no handler of execute_test catches.
SpawnFailsWith(c, test_path, timeout, capture_output, pytest_args, e) ==
    /\ call[c].pc = "idle"
    /\ call' = [call EXCEPT ![c] =
            [Entered(test_path, timeout, capture_output, pytest_args)
                EXCEPT !.pc = "raised", !.exception = Some(e)]]
    /\ child' = [child EXCEPT ![c] = NoChild]
    /\ UNCHANGED <<now, nonExecVars>>

SpawnFails(c) ==
    \E test_path \in TestPaths, timeout \in Timeouts,
       capture_output \in BOOLEAN, pytest_args \in ExecArgs, e \in LaunchErrors :
        SpawnFailsWith(c, test_path, timeout, capture_output, pytest_args, e)

\* The running child writes to its stdout and stderr.
ChildWriteWith(c, o) ==
    /\ child[c].state = "running"
    /\ child[c].out = "" /\ child[c].err = ""
    /\ o.out # "" \/ o.err # ""
    /\ child' = [child EXCEPT ![c].out = o.out, ![c].err = o.err]
    /\ UNCHANGED <<now, call, nonExecVars>>

ChildWrite(c) == \E o \in ChildOutputs : ChildWriteWith(c, o)

\* The child exits within the timeout: subprocess.run returns and execute_test
\* runs to its return statement (lines 72-81, 97-126).
ChildExitWith(c, rc) ==
    /\ call[c].pc = "waiting" /\ child[c].state = "running"
    /\ LET ch == [child[c] EXCEPT !.state = "exited", !.returncode = rc]
           result == CompletedProcess(call[c].run_calls[1], ch)
           duration == now - call[c].start_time
       IN  /\ child' = [child EXCEPT ![c] = ch]
           /\ call' = [call EXCEPT ![c] = Completed(call[c], result, duration, now)]
    /\ UNCHANGED <<now, nonExecVars>>

ChildExit(c) == \E rc \in ReturnCodes : ChildExitWith(c, rc)

\* The child of a capturing call wrote bytes that are no text in the locale's
\* encoding and exits within the timeout: subprocess.run(text=True) decodes
\* the collected bytes when the wait ends and raises UnicodeDecodeError
\* (lines 69-71), which the handler of line 83 does not catch.
ChildExitUndecodable(c) ==
    /\ call[c].pc = "waiting" /\ child[c].state = "running"
    /\ call[c].run_calls[1].capture_output
    /\ \E rc \in ReturnCodes :
         child' = [child EXCEPT ![c].state = "exited", ![c].returncode = rc]
    /\ call' = [call EXCEPT ![c].pc = "raised",
                            ![c].exception = Some("UnicodeDecodeError")]
    /\ UNCHANGED <<now, nonExecVars>>

\* The timeout expires first: subprocess.run raises TimeoutExpired and the
\* handler returns the timeout result (lines 83-95).
TimeoutExpired(c) ==
    /\ call[c].pc = "waiting" /\ child[c].state = "running"
    /\ child' = [child EXCEPT ![c] = ChildAfterTimeout(child[c])]
    /\ call' = [call EXCEPT ![c] =
            Return(call[c], TimeoutResult(call[c].test_path, call[c].timeout,
                                          call[c].started_at, now))]
    /\ UNCHANGED <<now, nonExecVars>>

\* The caller has its result or its exception; the tool is ready for the next call.
Consume(c) ==
    /\ call[c].pc \in {"returned", "raised"}
    /\ call' = [call EXCEPT ![c] = IdleCall]
    /\ UNCHANGED <<now, child, nonExecVars>>

\* Wall-clock time passes.
Tick ==
    /\ now < MaxTime
    /\ now' = now + 1
    /\ UNCHANGED <<call, child, nonExecVars>>

\* The wall clock is set back (a clock step by NTP or by hand, or the end of
\* daylight saving time for the naive local datetime.now()): time.time() and
\* datetime.now() are not monotonic.
ClockSetBack ==
    /\ now > 0
    /\ now' = now - 1
    /\ UNCHANGED <<call, child, nonExecVars>>

\* No request is being constructed.
RequestIdle ==
    /\ rq_pc = "off" /\ rq_in = << >> /\ rq_out = << >>

\* No caller holds a result record.
HoldIdle ==
    /\ hd_pc = "off" /\ hd_built = << >> /\ hd_rec = << >> /\ hd_exc = None

\* No BaseTool.execute call is being made.
BaseIdle ==
    /\ bt_pc = "off" /\ bt_name = "" /\ bt_kwargs = {} /\ bt_start = 0
    /\ bt_seen = None /\ bt_inner = << >> /\ bt_log = << >> /\ bt_out = << >>

\* No discover_tests call is being made.
DiscIdle ==
    /\ ds_pc = "off" /\ ds_in = << >> /\ ds_runs = << >> /\ ds_child = << >>
    /\ ds_out = << >>

\* No server object is in use.
ServerIdle ==
    /\ sv_pc = "off" /\ sv_self = << >> /\ sv_calls = << >> /\ sv_trace = << >>
    /\ sv_exc = None /\ sv_log = << >> /\ sv_reply = << >>

BuildIdle ==
    /\ bc_pc = "off" /\ bc_path = "" /\ bc_args = None /\ bc_given = None
    /\ bc_out = << >>

\* Lines 15-38: the tool as __init__ leaves it.
TestExecutionTool_init ==
    [ name |-> "run_test",
      description |-> "Execute a single test or test file and capture results",
      parameters |-> {"test_path", "timeout", "capture_output"},
      output_parser |-> "PytestOutputParser" ]

ExecIdle ==
    /\ now = 0
    /\ tool = TestExecutionTool_init
    /\ call = [c \in Calls |-> IdleCall]
    /\ child = [c \in Calls |-> NoChild]

ScanIdle ==
    /\ sc_pc = "off" /\ sc_in = << >> /\ sc_out = << >>

Init ==
    /\ ExecIdle
    /\ BuildIdle
    /\ ScanIdle
    /\ RequestIdle
    /\ HoldIdle
    /\ BaseIdle
    /\ DiscIdle
    /\ ServerIdle

Next ==
    \/ \E c \in Calls : Spawn(c)
    \/ \E c \in Calls : SpawnFails(c)
    \/ \E c \in Calls : ChildWrite(c)
    \/ \E c \in Calls : ChildExit(c)
    \/ \E c \in Calls : ChildExitUndecodable(c)
    \/ \E c \in Calls : TimeoutExpired(c)
    \/ \E c \in Calls : Consume(c)
    \/ Tick
    \/ ClockSetBack

Spec == Init /\ [][Next]_vars

\* One call that launches its child, followed from its entry to its end.
NextWait ==
    \/ \E c \in Calls : Spawn(c)
    \/ \E c \in Calls : ChildWrite(c)
    \/ \E c \in Calls : ChildExit(c)
    \/ \E c \in Calls : ChildExitUndecodable(c)
    \/ \E c \in Calls : TimeoutExpired(c)
    \/ Tick

\* The driver under the scheduling the blocking wait guarantees:
\* subprocess.run is given the timeout (lines 70 and 76), so a child that
\* stays running meets the deadline and the wait ends by TimeoutExpired.
SpecWait == Init /\ [][NextWait]_vars /\ \A c \in Calls : WF_vars(TimeoutExpired(c))

-----------------------------------------------------------------------------
(* The command builder on its own: a caller holding a target and a list    *)
(* calls _build_command twice with them.                                   *)

BuildCall ==
    /\ bc_pc \in {"ready", "once"}
    /\ LET r == _build_command(bc_path, bc_args)
       IN  /\ bc_args' = r.pytest_args
           /\ IF IsNone(r.exc)
              THEN /\ bc_out' = Append(bc_out, r.ret)
                   /\ bc_pc' = IF bc_pc = "ready" THEN "once" ELSE "twice"
              ELSE /\ bc_out' = bc_out
                   /\ bc_pc' = "raised"
    /\ UNCHANGED <<bc_path, bc_given, nonBuildVars>>

InitBuild ==
    /\ ExecIdle
    /\ ScanIdle
    /\ bc_pc = "ready"
    /\ bc_path \in BuildPaths
    /\ bc_args \in BuildArgs
    /\ bc_given = bc_args
    /\ bc_out = << >>
    /\ RequestIdle
    /\ HoldIdle
    /\ BaseIdle
    /\ DiscIdle
    /\ ServerIdle

NextBuild == BuildCall

SpecBuild == InitBuild /\ [][NextBuild]_vars

-----------------------------------------------------------------------------
(* The output scanner inside execute_test: two runs with the same target,  *)
(* capture flag and child exit code, whose children wrote sc_in.text[1]    *)
(* and sc_in.text[2], each taken from the return of subprocess.run to the  *)
(* end of execute_test.                                                    *)

ScanRun ==
    /\ sc_pc \in {"ready", "once"}
    /\ LET k == Len(sc_out) + 1
           c == Entered(sc_in.test_path, sc_in.timeout, sc_in.capture_output, None)
           ch == [ state |-> "exited", out |-> sc_in.text[k].out,
                   err |-> sc_in.text[k].err, returncode |-> sc_in.returncode ]
           result == CompletedProcess(c.run_calls[1], ch)
       IN  sc_out' = Append(sc_out, Completed(c, result, 0, now))
    /\ sc_pc' = IF sc_pc = "ready" THEN "once" ELSE "twice"
    /\ UNCHANGED <<sc_in, nonScanVars>>

InitScan ==
    /\ ExecIdle
    /\ BuildIdle
    /\ sc_pc = "ready"
    /\ sc_in \in [ test_path : {"a/b.py::t"}, timeout : {30}, capture_output : BOOLEAN,
                   returncode : ReturnCodes, text : [{1, 2} -> ScanOutputs] ]
    /\ sc_out = << >>
    /\ RequestIdle
    /\ HoldIdle
    /\ BaseIdle
    /\ DiscIdle
    /\ ServerIdle

NextScan == ScanRun

SpecScan == InitScan /\ [][NextScan]_vars

-----------------------------------------------------------------------------
(* The request model on its own: a caller constructs one TestExecutionRequest *)
(* from keyword arguments, any of which it may omit.                          *)

RequestConstruct ==
    /\ rq_pc = "ready"
    /\ rq_out' = TestExecutionRequest(rq_in)
    /\ rq_pc' = "done"
    /\ UNCHANGED <<rq_in, nonRequestVars>>

InitRequest ==
    /\ ExecIdle
    /\ BuildIdle
    /\ ScanIdle
    /\ rq_pc = "ready"
    /\ rq_in \in [ test_path : RequestPaths, timeout : RequestTimeouts,
                    capture_output : {None, Some(TRUE), Some(FALSE)},
                    pytest_args : {None} \cup {Some(a) : a \in SeqsUpTo(ExtraArgTokens, 1)} ]
    /\ rq_out = << >>
    /\ HoldIdle
    /\ BaseIdle
    /\ DiscIdle
    /\ ServerIdle

NextRequest == RequestConstruct

SpecRequest == InitRequest /\ [][NextRequest]_vars

-----------------------------------------------------------------------------
(* A caller that holds the record execute_test returned and assigns to one  *)
(* of its fields.                                                           *)

\* What a caller may assign: field and value.
HoldAssignments ==
    ({"status"} \X {"passed", "failed", "error", "timeout", "bogus"})
        \cup ({"exit_code"} \X {0, 99})
        \cup ({"stdout"} \X {"", "edited"})
        \cup ({"error_message"} \X {None, Some("edited")})

HoldAssign ==
    /\ hd_pc = "held"
    /\ \E a \in HoldAssignments :
         LET r == TestExecutionResult_setattr(hd_rec, a[1], a[2])
         IN  /\ hd_rec' = r.ret
             /\ hd_exc' = r.exc
    /\ hd_pc' = "assigned"
    /\ UNCHANGED <<hd_built, nonHoldVars>>

\* The record of a call that ran to its return statement.
InitHold ==
    /\ ExecIdle
    /\ BuildIdle
    /\ ScanIdle
    /\ RequestIdle
    /\ hd_pc = "held"
    /\ \E capture_output \in BOOLEAN, rc \in ReturnCodes, o \in ChildOutputs :
         LET c == Entered("tests/test_example.py", 30, capture_output, None)
             ch == [state |-> "exited", out |-> o.out, err |-> o.err, returncode |-> rc]
         IN  hd_built = CompletedResult(c, CompletedProcess(c.run_calls[1], ch), 0, 0)
    /\ hd_rec = hd_built
    /\ hd_exc = None
    /\ BaseIdle
    /\ DiscIdle
    /\ ServerIdle

NextHold == HoldAssign

SpecHold == InitHold /\ [][NextHold]_vars

-----------------------------------------------------------------------------
(* tools/base.py: one BaseTool.execute call on a tool whose _execute returns *)
(* a value or raises. A keyword-argument dict is a set of <<key, value>>     *)
(* pairs; an exception is a record of its class name, its message and its    *)
(* __cause__.                                                                *)

StartExecution ==
    /\ bt_pc = "ready"
    /\ bt_start' = now
    /\ bt_log' = Append(bt_log, StartRecord(bt_name, bt_kwargs))
    /\ bt_pc' = "started"
    /\ UNCHANGED <<now, bt_name, bt_kwargs, bt_seen, bt_inner, bt_out, nonBaseVars>>

\* Line 58: _execute runs with the keyword arguments and returns or raises.
InnerExecute ==
    /\ bt_pc = "started"
    /\ bt_seen' = Some(bt_kwargs)
    /\ bt_inner' \in InnerOutcomes(bt_kwargs)
    /\ bt_pc' = "inner_done"
    /\ UNCHANGED <<now, bt_name, bt_kwargs, bt_start, bt_log, bt_out, nonBaseVars>>

\* Lines 60-82: the rest of execute, at the clock reading of that moment.
FinishExecution ==
    /\ bt_pc = "inner_done"
    /\ LET r == execute_after(bt_name, bt_start, now, bt_inner)
       IN  /\ bt_log' = bt_log \o r.log
           /\ bt_out' = r.out
           /\ bt_pc' = IF IsNone(r.out.exc) THEN "returned" ELSE "raised"
    /\ UNCHANGED <<now, bt_name, bt_kwargs, bt_start, bt_seen, bt_inner, nonBaseVars>>

InitTool ==
    /\ ExecIdle
    /\ BuildIdle
    /\ ScanIdle
    /\ RequestIdle
    /\ HoldIdle
    /\ bt_pc = "ready"
    /\ bt_name \in ToolNames
    /\ bt_kwargs \in ToolKwargs
    /\ bt_start = 0
    /\ bt_seen = None
    /\ bt_inner = << >>
    /\ bt_log = << >>
    /\ bt_out = << >>
    /\ DiscIdle
    /\ ServerIdle

NextTool ==
    \/ StartExecution
    \/ InnerExecute
    \/ FinishExecution
    \/ Tick
    \/ ClockSetBack

SpecTool == InitTool /\ [][NextTool]_vars

-----------------------------------------------------------------------------
(* One discover_tests call: the path is checked, the collection child is    *)
(* run and its report is turned into the result.                            *)

\* Lines 57-63 and 91-112: the check of the path and, if it passes, the start
\* of the collection child.
DiscoverEnter ==
    /\ ds_pc = "ready"
    /\ LET e == discover_tests_check(ds_in.path, ds_in.stat)
       IN  IF ~IsNone(e)
           THEN /\ ds_out' = [ret |-> None, exc |-> e]
                /\ ds_pc' = "raised"
                /\ ds_runs' = ds_runs
           ELSE /\ ds_out' = ds_out
                /\ ds_pc' = "collecting"
                /\ ds_runs' = Append(ds_runs, CollectCommand(ds_in.path, ds_in.pattern, ds_in.markers))
    /\ UNCHANGED <<ds_in, ds_child, nonDiscVars>>

\* Lines 112-145 and 66-71: the collection child ends and discover_tests
\* runs to its end.
CollectEnds ==
    /\ ds_pc = "collecting"
    /\ \E o \in CollectOutcomes :
         LET r == discover_tests_after(o)
         IN  /\ ds_child' = o
             /\ ds_out' = r
             /\ ds_pc' = IF IsNone(r.exc) THEN "returned" ELSE "raised"
    /\ UNCHANGED <<ds_in, ds_runs, nonDiscVars>>

InitDiscover ==
    /\ ExecIdle
    /\ BuildIdle
    /\ ScanIdle
    /\ RequestIdle
    /\ HoldIdle
    /\ BaseIdle
    /\ ds_pc = "ready"
    /\ ds_in \in DiscoverInputs
    /\ ds_runs = << >>
    /\ ds_child = << >>
    /\ ds_out = << >>
    /\ ServerIdle

NextDiscover ==
    \/ DiscoverEnter
    \/ CollectEnds

SpecDiscover == InitDiscover /\ [][NextDiscover]_vars

-----------------------------------------------------------------------------
(* The MCP server object: its tool registry, its info reads, its protocol   *)
(* handlers and its run coroutine.                                          *)

\* The most register_tool calls made on one server.
MaxRegs == 2

\* The names tools are registered under, and the tool infos registered.
ToolKeys == {"run_test", "discover_tests", "health_check"}
ToolInfos ==
    { [name |-> "run_test", description |-> d, parameters |-> {}] : d \in {"first", "second"} }

\* The names the call-tool handler is asked for.
CallNames == ToolKeys \cup {"unknown_tool", ""}

\* A Python dict is kept as its items <<key, value>> in insertion order.
dict_has(dict, k) == \E i \in 1..Len(dict) : dict[i][1] = k
dict_get(dict, k) == dict[CHOOSE i \in 1..Len(dict) : dict[i][1] = k][2]

\* list(dict.keys()): the keys in insertion order.
dict_keys(dict) == [i \in 1..Len(dict) |-> dict[i][1]]

dict_setitem_KeepsOldItem(dict, k, v) == Append(dict, <<k, v>>)

\* dict[k] = v: the value of a key already present is replaced in place, a
\* new key is added at the end.
dict_setitem(dict, k, v) ==
    IF dict_has(dict, k)
    THEN [i \in 1..Len(dict) |-> IF dict[i][1] = k THEN <<k, v>> ELSE dict[i]]
    ELSE Append(dict, <<k, v>>)

\* Lines 17-25: the server as __init__ leaves it.
MCPPytestServer_init ==
    [name |-> "mcp-pytest-tools", version |-> "0.1.0", tools |-> << >>]

\* models.py 19-26: the status values HealthCheckResponse accepts.
HealthCheckResponse_validate_status(v) == v \in {"healthy", "unhealthy", "degraded"}

\* Lines 43-47 and models.py 9-26: the health check answer, or the error of
\* the model's validator.
health_check(self) ==
    IF HealthCheckResponse_validate_status("healthy")
    THEN [ ret |-> Some([ status |-> "healthy", server_name |-> self.name,
                          version |-> self.version, timestamp |-> now ]),
           exc |-> None ]
    ELSE [ ret |-> None, exc |-> Some([type |-> "ValidationError", message |-> "Status must be one of"]) ]

\* Lines 49-52: list_tools returns a new empty list.
list_tools(self) == << >>

\* Lines 30-32: the list-tools handler.
handle_list_tools(self) == [ret |-> Some(list_tools(self)), exc |-> None]

handle_call_tool_KnowsRegistry(self, name) ==
    IF name = "health_check" \/ dict_has(self.tools, name) THEN health_check(self)
    ELSE [ ret |-> None, exc |-> Some([type |-> "ValueError", message |-> "Unknown tool: " \o name]) ]

\* Lines 34-41: the call-tool handler; its arguments parameter is not read.
handle_call_tool(self, name) ==
    IF name = "health_check" THEN health_check(self)
    ELSE [ ret |-> None, exc |-> Some([type |-> "ValueError", message |-> "Unknown tool: " \o name]) ]

\* Lines 62-69: the server_info property.
server_info(self) ==
    [name |-> self.name, version |-> self.version, tools |-> dict_keys(self.tools)]

\* Lines 71-75 and models.py 39-46: get_server_info.
get_server_info(self) ==
    [name |-> self.name, version |-> self.version, tools |-> dict_keys(self.tools)]

\* Lines 77-80: the registry after register_tool(name, tool_info).
register_tool(self, name, tool_info) ==
    [self EXCEPT !.tools = dict_setitem(self.tools, name, tool_info)]

\* What a logger.info call of run may end with instead of returning.
LogFailure == [type |-> "KeyboardInterrupt", message |-> ""]

run_after_step_NoFinally(raised) == IF raised THEN "raised" ELSE "finally"

\* Lines 85-89: where run goes after the running step. The step is the body
\* of try ... finally, so the finally clause is next whether it raised or not.
run_after_step(raised) == "finally"

\* The calls made on the server from outside run happen before run starts or
\* after it has ended: run has no suspension point, so nothing else runs on
\* its event loop between its steps.

\* An answer in hand: the operation, its argument, how many register_tool
\* calls had been made when it was given, and what it returned or raised.
Reply(op, arg, r) ==
    [op |-> op, arg |-> arg, at |-> Len(sv_calls), ret |-> r.ret, exc |-> r.exc]

\* Lines 77-80: one register_tool call.
RegisterTool ==
    /\ sv_pc \in {"ready", "returned", "raised"}
    /\ Len(sv_calls) < MaxRegs
    /\ \E name \in ToolKeys, tool_info \in ToolInfos :
         /\ sv_self' = register_tool(sv_self, name, tool_info)
         /\ sv_calls' = Append(sv_calls, <<name, tool_info>>)
         /\ sv_log' = Append(sv_log, "Registered tool: " \o name)
    /\ UNCHANGED <<sv_pc, sv_trace, sv_exc, sv_reply, nonServerVars>>

\* Lines 62-69: one read of the server_info property.
ReadServerInfo ==
    /\ sv_pc \in {"ready", "returned", "raised"}
    /\ sv_reply' = Reply("server_info", "", [ret |-> Some(server_info(sv_self)), exc |-> None])
    /\ UNCHANGED <<sv_pc, sv_self, sv_calls, sv_trace, sv_exc, sv_log, nonServerVars>>

\* Lines 71-75: one get_server_info call.
GetServerInfo ==
    /\ sv_pc \in {"ready", "returned", "raised"}
    /\ sv_reply' = Reply("get_server_info", "", [ret |-> Some(get_server_info(sv_self)), exc |-> None])
    /\ UNCHANGED <<sv_pc, sv_self, sv_calls, sv_trace, sv_exc, sv_log, nonServerVars>>

\* Lines 30-32: the list-tools handler is called.
ListTools ==
    /\ sv_pc \in {"ready", "returned", "raised"}
    /\ sv_reply' = Reply("list_tools", "", handle_list_tools(sv_self))
    /\ UNCHANGED <<sv_pc, sv_self, sv_calls, sv_trace, sv_exc, sv_log, nonServerVars>>

\* Lines 34-41: the call-tool handler is called with a name.
CallTool ==
    /\ sv_pc \in {"ready", "returned", "raised"}
    /\ \E name \in CallNames :
         sv_reply' = Reply("call_tool", name, handle_call_tool(sv_self, name))
    /\ UNCHANGED <<sv_pc, sv_self, sv_calls, sv_trace, sv_exc, sv_log, nonServerVars>>

\* Lines 84 and 54-56: run calls startup, which logs one message.
RunStartup ==
    /\ sv_pc = "ready"
    /\ sv_trace' = Append(sv_trace, "startup")
    /\ \E raised \in BOOLEAN :
         IF raised
         THEN /\ sv_exc' = Some(LogFailure)
              /\ sv_pc' = "raised"
              /\ sv_log' = sv_log
         ELSE /\ sv_exc' = sv_exc
              /\ sv_pc' = "try"
              /\ sv_log' = Append(sv_log, "MCP pytest server starting up")
    /\ UNCHANGED <<sv_self, sv_calls, sv_reply, nonServerVars>>

\* Lines 85-87: the running step, the body of the try statement.
RunRunning ==
    /\ sv_pc = "try"
    /\ sv_trace' = Append(sv_trace, "running")
    /\ \E raised \in BOOLEAN :
         /\ sv_pc' = run_after_step(raised)
         /\ IF raised
            THEN /\ sv_exc' = Some(LogFailure)
                 /\ sv_log' = sv_log
            ELSE /\ sv_exc' = sv_exc
                 /\ sv_log' = Append(sv_log, "MCP pytest server running")
    /\ UNCHANGED <<sv_self, sv_calls, sv_reply, nonServerVars>>

\* Lines 88-89 and 58-60: the finally clause calls shutdown, which logs one
\* message; run then returns, or leaves with the exception that is pending.
RunShutdown ==
    /\ sv_pc = "finally"
    /\ sv_trace' = Append(sv_trace, "shutdown")
    /\ \E raised \in BOOLEAN :
         IF raised
         THEN /\ sv_exc' = Some(LogFailure)
              /\ sv_pc' = "raised"
              /\ sv_log' = sv_log
         ELSE /\ sv_exc' = sv_exc
              /\ sv_pc' = IF IsNone(sv_exc) THEN "returned" ELSE "raised"
              /\ sv_log' = Append(sv_log, "MCP pytest server shutting down")
    /\ UNCHANGED <<sv_self, sv_calls, sv_reply, nonServerVars>>

InitServer ==
    /\ ExecIdle
    /\ BuildIdle
    /\ ScanIdle
    /\ RequestIdle
    /\ HoldIdle
    /\ BaseIdle
    /\ DiscIdle
    /\ sv_pc = "ready"
    /\ sv_self = MCPPytestServer_init
    /\ sv_calls = << >>
    /\ sv_trace = << >>
    /\ sv_exc = None
    /\ sv_log = << >>
    /\ sv_reply = << >>

NextServer ==
    \/ RegisterTool
    \/ ReadServerInfo
    \/ GetServerInfo
    \/ ListTools
    \/ CallTool
    \/ RunStartup
    \/ RunRunning
    \/ RunShutdown

\* run has no suspension point: once started, the coroutine goes on to its end.
SpecServer ==
    InitServer /\ [][NextServer]_vars /\ WF_vars(RunRunning) /\ WF_vars(RunShutdown)

-----------------------------------------------------------------------------
(* Two execute_test calls on one tool, issued in parallel: each step of one *)
(* call may fall between any two steps of the other.                        *)

ConcSpawn(c) ==
    \E test_path \in ConcPaths, capture_output \in BOOLEAN :
        SpawnWith(c, test_path, 30, capture_output, None)

ConcSpawnFails(c) ==
    \E test_path \in ConcPaths, capture_output \in BOOLEAN :
        SpawnFailsWith(c, test_path, 30, capture_output, None, "FileNotFoundError")

ConcChildExit(c) == \E rc \in ConcReturnCodes : ChildExitWith(c, rc)

ConcTick ==
    /\ now < MaxConcTime
    /\ now' = now + 1
    /\ UNCHANGED <<call, child, nonExecVars>>

InitConc ==
    /\ now = 0
    /\ tool = TestExecutionTool_init
    /\ call = [c \in ConcCalls |-> IdleCall]
    /\ child = [c \in ConcCalls |-> NoChild]
    /\ BuildIdle
    /\ ScanIdle
    /\ RequestIdle
    /\ HoldIdle
    /\ BaseIdle
    /\ DiscIdle
    /\ ServerIdle

NextConc ==
    \/ \E c \in ConcCalls : ConcSpawn(c)
    \/ \E c \in ConcCalls : ConcSpawnFails(c)
    \/ \E c \in ConcCalls : ChildWrite(c)
    \/ \E c \in ConcCalls : ConcChildExit(c)
    \/ \E c \in ConcCalls : TimeoutExpired(c)
    \/ ConcTick

SpecConc == InitConc /\ [][NextConc]_vars

-----------------------------------------------------------------------------
(* Two execute_test coroutines on one event loop: the loop's thread runs a  *)
(* coroutine until it suspends at an await, and only then starts or resumes *)
(* another.                                                                 *)

execute_test_awaits_AtRun == TRUE

\* Lines 40-126: the body of execute_test holds no await expression; the child
\* is run by the blocking subprocess.run (lines 69-81).
execute_test_awaits == FALSE

\* The loop's thread is inside coroutine c: c was started, has not ended and
\* is not suspended.
OnLoopThread(c) == call[c].pc = "waiting" /\ ~execute_test_awaits

\* The loop's thread is inside no coroutine and takes the next one.
LoopFree == \A c \in ConcCalls : ~OnLoopThread(c)

LoopSpawn(c) == LoopFree /\ ConcSpawn(c)

LoopSpawnFails(c) == LoopFree /\ ConcSpawnFails(c)

NextLoop ==
    \/ \E c \in ConcCalls : LoopSpawn(c)
    \/ \E c \in ConcCalls : LoopSpawnFails(c)
    \/ \E c \in ConcCalls : ChildWrite(c)
    \/ \E c \in ConcCalls : ConcChildExit(c)
    \/ \E c \in ConcCalls : TimeoutExpired(c)
    \/ ConcTick

SpecLoop == InitConc /\ [][NextLoop]_vars

-----------------------------------------------------------------------------
(* Properties of the execution driver. *)

Returned(c) == call[c].pc = "returned"
Raised(c) == call[c].pc = "raised"
Finished(c) == Returned(c) \/ Raised(c)
Res(c) == Get(call[c].result)
\* the child of call c exited by itself and subprocess.run returned
CompletedNormally(c) == Returned(c) /\ child[c].state = "exited"
\* the timeout of call c expired while its child was running
TimedOut(c) == Finished(c) /\ child[c].state = "killed"
\* the child of call c could not be started
LaunchFailed(c) == Finished(c) /\ child[c].state = "none"

\* The spawn side of a finished call: subprocess.run was called exactly once,
\* with the built vector, the capture flag and the timeout of the call.
RunsOnceWithCallArguments ==
    \A c \in Calls : Finished(c) =>
        /\ Len(call[c].run_calls) = 1
        /\ call[c].run_calls[1].cmd =
             <<"python", "-m", "pytest", "-v", call[c].test_path>>
               \o (IF IsNone(call[c].pytest_args) THEN << >> ELSE Get(call[c].pytest_args))
        /\ call[c].run_calls[1].timeout = call[c].timeout
        /\ call[c].returns <= 1

\* C1: when the child completes normally, status and error message are a
\* function of its exit code alone: 0 -> passed, no message; 1 -> failed, no
\* message; 4 -> error, "No tests collected or test not found"; any other code
\* c -> error, "Unexpected exit code: c".
C1_StatusFromExitCode ==
    \A c \in Calls : CompletedNormally(c) =>
        LET rc == child[c].returncode
            r == Res(c)
        IN  /\ rc = 0 => r.status = "passed" /\ r.error_message = None
            /\ rc = 1 => r.status = "failed" /\ r.error_message = None
            /\ rc = 4 => /\ r.status = "error"
                         /\ r.error_message = Some("No tests collected or test not found")
            /\ rc \notin {0, 1, 4} =>
                 /\ r.status = "error"
                 /\ r.error_message = Some("Unexpected exit code: " \o ToString(rc))

\* C1 witness: a child that wrote to both streams exits with the unmapped code
\* 7 and the result says "Unexpected exit code: 7"; exit code 4 is reported too.
C1_Witness ==
    \E c \in Calls :
        /\ CompletedNormally(c)
        /\ child[c].returncode = 7
        /\ child[c].err # ""
        /\ Res(c).status = "error"
        /\ Res(c).error_message = Some("Unexpected exit code: 7")

\* C2: when the child exceeds the timeout T, execute_test returns (it does not
\* raise) a result with status timeout, exit_code -1, duration T, empty stdout
\* and stderr, and an error message that contains the value T.
C2_TimeoutResult ==
    \A c \in Calls : TimedOut(c) =>
        /\ Returned(c)
        /\ Res(c).status = "timeout"
        /\ Res(c).exit_code = -1
        /\ Res(c).duration = call[c].timeout
        /\ Res(c).stdout = "" /\ Res(c).stderr = ""
        /\ ~IsNone(Res(c).error_message)
        /\ Contains(Get(Res(c).error_message), ToString(call[c].timeout))

\* C2 witness: a capturing call with timeout 30 times out after its child has
\* written output, at a moment when the measured time differs from 30.
C2_Witness ==
    \E c \in Calls :
        /\ TimedOut(c) /\ Returned(c)
        /\ call[c].timeout = 30 /\ call[c].capture_output
        /\ child[c].out # ""
        /\ now - call[c].start_time = 2
        /\ Res(c).error_message = Some("Test execution timed out after 30 seconds")

\* C3: in every result returned by execute_test the error message is present
\* if and only if the status is error or timeout.
C3_MessageIffErrorOrTimeout ==
    \A c \in Calls : Returned(c) =>
        (~IsNone(Res(c).error_message) <=> Res(c).status \in {"error", "timeout"})

\* C3 witness: a failed result whose captured stderr is not empty carries no
\* error message.
C3_Witness ==
    \E c \in Calls :
        /\ Returned(c)
        /\ Res(c).status = "failed"
        /\ Res(c).stderr # ""
        /\ IsNone(Res(c).error_message)

\* C4: when the child cannot be launched, the caller gets a result with status
\* error and a message, or an error of the tool's own error type; the raw
\* process-layer exception never reaches the caller.
C4_LaunchFailureReported ==
    \A c \in Calls : LaunchFailed(c) =>
        \/ /\ Returned(c)
           /\ Res(c).status = "error"
           /\ ~IsNone(Res(c).error_message)
        \/ /\ Raised(c)
           /\ Get(call[c].exception) \in McpPytestErrorTypes

\* C5: a call with the empty target is rejected before any child process is
\* spawned: no child is started for it.
C5_EmptyTargetNotSpawned ==
    \A c \in Calls : (call[c].pc # "idle" /\ call[c].test_path = "") =>
        child[c].state = "none"

\* C6: in every result returned by execute_test, exit_code is -1 if and only
\* if the status is timeout.
C6_MinusOneIffTimeout ==
    \A c \in Calls : Returned(c) =>
        (Res(c).exit_code = -1 <=> Res(c).status = "timeout")

\* C7: once execute_test has returned a result with status timeout, the child
\* it started has been killed; no child is running unless its call is still
\* waiting for it.
C7_TimedOutChildTerminated ==
    \A c \in Calls :
        /\ (Returned(c) /\ Res(c).status = "timeout") => child[c].state = "killed"
        /\ child[c].state = "running" => call[c].pc = "waiting"

\* C7 witness: a timeout result is held by the caller and the child is dead.
C7_Witness ==
    \E c \in Calls :
        /\ Returned(c)
        /\ Res(c).status = "timeout"
        /\ child[c].state = "killed"

\* C8: every finished call has requested exactly one run, with the built
\* vector and the caller's timeout unchanged, and has produced exactly one
\* result.
C8_OneSpawnOneResult ==
    \A c \in Calls : Finished(c) =>
        /\ Len(call[c].run_calls) = 1
        /\ call[c].run_calls[1].cmd = _build_command(call[c].test_path, call[c].pytest_args).ret
        /\ call[c].run_calls[1].timeout = call[c].timeout
        /\ call[c].returns = 1
        /\ ~IsNone(call[c].result)

\* C11: the output scanner never influences the result: two runs with the same
\* target, capture flag and child exit code but any texts on the child's
\* streams both return, with the same status, exit_code and error message.
C11_ScannerHasNoInfluence ==
    /\ \A k \in 1..Len(sc_out) : sc_out[k].pc = "returned"
    /\ sc_pc = "twice" =>
         LET r1 == Get(sc_out[1].result)
             r2 == Get(sc_out[2].result)
         IN  /\ r1.status = r2.status
             /\ r1.exit_code = r2.exit_code
             /\ r1.error_message = r2.error_message

\* C11 witness: with capture on and exit code 0, one child wrote a summary the
\* scanner reads as failures and errors, the other a line whose count is no
\* number; the two results differ in stdout and agree on status passed.
C11_Witness ==
    /\ sc_pc = "twice"
    /\ sc_in.capture_output /\ sc_in.returncode = 0
    /\ sc_in.text[1].out = "FAILED a/b.py::t\n1 failed, 2 passed in 1.5s"
    /\ sc_in.text[2].out = "x passed in ys"
    /\ parse_test_output(sc_in.text[1].out, sc_in.text[1].err).failed = 1
    /\ parse_test_output(sc_in.text[1].out, sc_in.text[1].err).errors = 1
    /\ Get(sc_out[1].result).stdout # Get(sc_out[2].result).stdout
    /\ Get(sc_out[1].result).status = "passed"
    /\ Get(sc_out[2].result).status = "passed"

\* C12: for every valid request (non-empty target, timeout of at least 1) the
\* returned result has duration >= 0 and completed_at >= started_at, on the
\* normal path and on the timeout path.
C12_NonNegativeDuration ==
    \A c \in Calls : (Returned(c) /\ call[c].test_path # "" /\ call[c].timeout >= 1) =>
        /\ Res(c).duration >= 0
        /\ Res(c).completed_at >= Res(c).started_at

\* C13: two calls issued in parallel are independent: in every interleaving
\* the result of each call is decided by its own request and by the outcome of
\* its own child alone, and no field of the tool is written during a call.
C13_ParallelCallsIndependent ==
    /\ tool = TestExecutionTool_init
    /\ \A c \in ConcCalls : Returned(c) =>
         LET r == Res(c)
             q == call[c]
             ch == child[c]
         IN  /\ r.test_path = q.test_path
             /\ ch.state \in {"exited", "killed"}
             /\ ch.state = "killed" =>
                  /\ r.status = "timeout" /\ r.exit_code = -1
                  /\ r.stdout = "" /\ r.stderr = ""
                  /\ r.duration = q.timeout
             /\ ch.state = "exited" =>
                  /\ r.exit_code = ch.returncode
                  /\ r.status = CASE ch.returncode = 0 -> "passed"
                                   [] ch.returncode = 1 -> "failed"
                                   [] OTHER -> "error"
                  /\ r.stdout = IF q.capture_output THEN ch.out ELSE ""
                  /\ r.stderr = IF q.capture_output THEN ch.err ELSE ""

\* C13 witness: two capturing calls with different targets were both started
\* at time 0 and both completed at time 1; their children wrote different
\* texts and exited with different codes, and each result has its own.
C13_Witness ==
    /\ DOMAIN call = ConcCalls
    /\ Returned(1) /\ Returned(2)
    /\ call[1].test_path # call[2].test_path
    /\ call[1].capture_output /\ call[2].capture_output
    /\ Res(1).started_at = 0 /\ Res(2).started_at = 0
    /\ Res(1).completed_at = 1 /\ Res(2).completed_at = 1
    /\ child[1].out # "" /\ child[2].out # "" /\ child[1].out # child[2].out
    /\ Res(1).stdout = child[1].out /\ Res(2).stdout = child[2].out
    /\ Res(1).status = "passed" /\ Res(2).status = "failed"

\* C14: a call whose child was launched returns its result exactly when the
\* wait ends: a result is never there before the child has exited or has been
\* killed at the deadline, and every call that waits for its child eventually
\* returns a result.
C14_ReturnsWhenWaitEnds ==
    /\ [](\A c \in Calls : Returned(c) => child[c].state \in {"exited", "killed"})
    /\ \A c \in Calls : (call[c].pc = "waiting") ~> Returned(c)

\* C15: on normal completion with capture enabled the result echoes its
\* inputs: test_path is the caller's target, exit_code is the child's return
\* code, stdout and stderr are the texts captured from the child.
C15_CapturedResultEchoesInputs ==
    \A c \in Calls : (CompletedNormally(c) /\ call[c].capture_output) =>
        /\ Res(c).test_path = call[c].test_path
        /\ Res(c).exit_code = child[c].returncode
        /\ Res(c).stdout = child[c].out
        /\ Res(c).stderr = child[c].err

\* C15 witness: a capturing call whose child wrote different texts to stdout
\* and stderr and exited with code 1 has returned both texts and the code.
C15_Witness ==
    \E c \in Calls :
        /\ CompletedNormally(c) /\ call[c].capture_output
        /\ call[c].test_path = "tests/test_example.py"
        /\ child[c].out # "" /\ child[c].err # "" /\ child[c].out # child[c].err
        /\ child[c].returncode = 1
        /\ Res(c).exit_code = 1
        /\ Res(c).stdout = child[c].out /\ Res(c).stderr = child[c].err

\* C16: constructing an execution request succeeds exactly when the target
\* has at least one character and the timeout is an integer from 1 to 3600;
\* omitted fields take the defaults: timeout 30, capture_output true, no extra
\* arguments.
C16_RequestValidation ==
    rq_pc = "done" =>
        LET kw == rq_in
            accepted == /\ ~IsNone(kw.test_path) /\ Get(kw.test_path) # ""
                        /\ \/ IsNone(kw.timeout)
                           \/ \E n \in 1..3600 : Get(kw.timeout) = 1000 * n
        IN  /\ ~IsNone(rq_out.ret) <=> accepted
            /\ IsNone(rq_out.ret) <=> ~IsNone(rq_out.exc)
            /\ accepted =>
                 LET rq == Get(rq_out.ret)
                 IN  /\ rq.test_path = Get(kw.test_path)
                     /\ 1000 * rq.timeout = (IF IsNone(kw.timeout) THEN 30000 ELSE Get(kw.timeout))
                     /\ rq.capture_output = (IF IsNone(kw.capture_output) THEN TRUE ELSE Get(kw.capture_output))
                     /\ rq.pytest_args = (IF IsNone(kw.pytest_args) THEN << >> ELSE Get(kw.pytest_args))

\* C16 witness: a request given only its target was constructed with the
\* three defaults.
C16_Witness ==
    /\ rq_pc = "done"
    /\ rq_in.test_path = Some("tests/test_example.py::test_function")
    /\ IsNone(rq_in.timeout) /\ IsNone(rq_in.capture_output) /\ IsNone(rq_in.pytest_args)
    /\ ~IsNone(rq_out.ret)
    /\ Get(rq_out.ret).timeout = 30
    /\ Get(rq_out.ret).capture_output
    /\ Get(rq_out.ret).pytest_args = << >>

\* C17: an execution result is immutable once constructed: whatever a holder
\* of the record does, every field keeps the value execute_test gave it.
C17_ResultImmutable ==
    hd_pc \in {"held", "assigned"} => hd_rec = hd_built

\* C18 as stated: every failure that leaves BaseTool.execute is a
\* McpPytestError: one raised by _execute leaves as the same exception, any
\* other exception leaves as McpPytestError "Tool <name> execution failed:
\* <original>" chained to the original; on success execute returns the value
\* of _execute, which received the caller's keyword arguments.
C18_EveryFailureIsMcpPytestError ==
    /\ bt_pc = "raised" =>
         LET e == Get(bt_inner.exc)
             out == Get(bt_out.exc)
         IN  /\ out.type \in McpPytestErrorTypes
             /\ e.type \in McpPytestErrorTypes => out = e
             /\ e.type \notin McpPytestErrorTypes =>
                  /\ out.type = "McpPytestError"
                  /\ out.message = "Tool " \o bt_name \o " execution failed: " \o e.message
                  /\ out.cause = Some(e)
    /\ bt_pc = "returned" =>
         /\ ~IsNone(bt_inner.ret) /\ bt_out.ret = bt_inner.ret /\ IsNone(bt_out.exc)
         /\ bt_seen = Some(bt_kwargs)

\* C18 amended: the same for every exception of _execute that derives from
\* Exception; an exception that derives from BaseException only (CancelledError,
\* KeyboardInterrupt) leaves execute as it is, not wrapped.
C18_ExceptionsLeaveAsMcpPytestError ==
    /\ bt_pc = "raised" =>
         LET e == Get(bt_inner.exc)
             out == Get(bt_out.exc)
         IN  /\ e.type \in McpPytestErrorTypes => out = e
             /\ e.type \in {"ValueError", "RuntimeError"} =>
                  /\ out.type = "McpPytestError"
                  /\ out.message = "Tool " \o bt_name \o " execution failed: " \o e.message
                  /\ out.cause = Some(e)
             /\ e.type \in {"CancelledError", "KeyboardInterrupt"} => out = e
             /\ out.type \notin McpPytestErrorTypes =>
                  e.type \in {"CancelledError", "KeyboardInterrupt"}
    /\ bt_pc = "returned" =>
         /\ ~IsNone(bt_inner.ret) /\ bt_out.ret = bt_inner.ret /\ IsNone(bt_out.exc)
         /\ bt_seen = Some(bt_kwargs)

\* C18 witness: _execute of "mock_tool" raised ValueError("Mock execution
\* failed") and execute raised the McpPytestError that wraps it.
C18_Witness ==
    /\ bt_pc = "raised" /\ bt_name = "mock_tool"
    /\ Get(bt_inner.exc).type = "ValueError"
    /\ Get(bt_out.exc).type = "McpPytestError"
    /\ Get(bt_out.exc).message = "Tool mock_tool execution failed: Mock execution failed"
    /\ Get(bt_out.exc).cause = bt_inner.exc

\* C19: for every BaseTool.execute call "Starting execution" is logged exactly
\* once and before _execute runs, followed by exactly one terminal record:
\* "Execution completed" (info) when _execute returned, "Execution failed"
\* (error, with error_type and error_message) when it did not; every record
\* carries the tool name and the terminal record a duration_ms >= 0.
C19_OneStartOneTerminalRecord ==
    /\ ~IsNone(bt_seen) =>
         /\ Len(bt_log) >= 1
         /\ bt_log[1].level = "INFO" /\ bt_log[1].message = "Starting execution"
    /\ \A i \in 1..Len(bt_log) : bt_log[i].context.tool = bt_name
    /\ bt_pc \in {"returned", "raised"} =>
         /\ Len(bt_log) = 2
         /\ bt_log[2].context.duration_ms >= 0
         /\ bt_pc = "returned" =>
              /\ bt_log[2].level = "INFO" /\ bt_log[2].message = "Execution completed"
         /\ bt_pc = "raised" =>
              /\ bt_log[2].level = "ERROR" /\ bt_log[2].message = "Execution failed"
              /\ bt_log[2].context.error_type = Get(bt_inner.exc).type
              /\ bt_log[2].context.error_message = Get(bt_inner.exc).message

\* C20: discover_tests called with a path that does not exist raises
\* ValueError "Path does not exist: <path>", has spawned no child process and
\* returns no result.
C20_MissingPathRaisesValueError ==
    (ds_pc \in {"collecting", "returned", "raised"} /\ ~ds_in.exists) =>
        /\ ds_pc = "raised"
        /\ ds_runs = << >>
        /\ IsNone(ds_out.ret)
        /\ ds_out.exc = Some([ type |-> "ValueError",
                               message |-> "Path does not exist: " \o ds_in.path ])

\* the collection child of the discover_tests call has ended
Collected == ds_pc \in {"returned", "raised"} /\ ds_runs # << >>

\* C21: collection fails as a whole whenever the collection child does not
\* end with exit code 0: a non-zero exit code raises RuntimeError "Failed to
\* collect tests: <stderr or 'Unknown collection error'>", the 30 second limit
\* raises RuntimeError "Test collection timed out"; no test list is returned
\* and the child is run once.
C21_CollectionFailsAsAWhole ==
    Collected =>
        /\ Len(ds_runs) = 1
        /\ ds_child.kind = "timeout" =>
             /\ ds_pc = "raised" /\ IsNone(ds_out.ret)
             /\ ds_out.exc = Some([type |-> "RuntimeError", message |-> "Test collection timed out"])
        /\ (ds_child.kind \in {"exit", "undecodable"} /\ ds_child.returncode # 0) =>
             /\ ds_pc = "raised" /\ IsNone(ds_out.ret)
             /\ Get(ds_out.exc).type = "RuntimeError"
             /\ Get(ds_out.exc).message =
                  (IF ds_child.stderr = ""
                   THEN "Failed to collect tests: Unknown collection error"
                   ELSE "Failed to collect tests: " \o ds_child.stderr)

\* the tests the collection child reported, as _collect_tests returns them
CollectedList == [i \in 1..Len(ds_child.tests) |-> NormalizeTest(ds_child.tests[i])]
\* the places of a hierarchy: file, class ("" for the functions list), position
Places(h) ==
    UNION {{<<f, "", i>> : i \in 1..Len(h[f].functions)} : f \in DOMAIN h}
    \cup UNION {UNION {{<<f, k, i>> : i \in 1..Len(h[f].classes[k].tests)} :
                          k \in DOMAIN h[f].classes} : f \in DOMAIN h}
\* the entry at a place
EntryAt(h, p) ==
    IF p[2] = "" THEN h[p[1]].functions[p[3]] ELSE h[p[1]].classes[p[2]].tests[p[3]]

\* C22: in every discover_tests result each collected test appears exactly
\* once in the hierarchy, among the functions of its file when it has no
\* class and among the tests of its class under its file otherwise; the
\* number of entries equals total_count, summary.total and the number of
\* collected tests; the markers of a class are the union of the markers of
\* its tests.
C22_EachTestOnceInHierarchy ==
    (ds_pc = "returned") =>
        LET r == Get(ds_out.ret)
            h == r.tests
            tests == CollectedList
            file(t) == IF IsNone(t.path) THEN "unknown" ELSE Get(t.path)
            class(t) == IF IsNone(t.class) THEN "" ELSE Get(t.class)
            entry(t) == [ name |-> IF IsNone(t.name) THEN "" ELSE Get(t.name),
                          id |-> IF IsNone(t.id) THEN "" ELSE Get(t.id),
                          markers |-> IF IsNone(t.markers) THEN << >> ELSE Get(t.markers) ]
        IN  /\ Cardinality(Places(h)) = Len(tests)
            /\ r.total_count = Len(tests)
            /\ r.summary.total = Len(tests)
            /\ \A i \in 1..Len(tests) :
                 Cardinality({p \in Places(h) :
                     p[1] = file(tests[i]) /\ p[2] = class(tests[i])
                     /\ EntryAt(h, p) = entry(tests[i])})
                 = Cardinality({j \in 1..Len(tests) :
                     file(tests[j]) = file(tests[i]) /\ class(tests[j]) = class(tests[i])
                     /\ entry(tests[j]) = entry(tests[i])})
            /\ \A f \in DOMAIN h : \A k \in DOMAIN h[f].classes :
                 h[f].classes[k].markers =
                    UNION { {h[f].classes[k].tests[i].markers[j] :
                                j \in 1..Len(h[f].classes[k].tests[i].markers)} :
                            i \in 1..Len(h[f].classes[k].tests) }

\* C22 witness: a result for two tests of one class of one file with different
\* markers: both are listed under the class, whose markers are those of both.
C22_Witness ==
    /\ ds_pc = "returned"
    /\ Len(ds_child.tests) = 2
    /\ Get(ds_out.ret).total_count = 2
    /\ "tests/test_a.py" \in DOMAIN Get(ds_out.ret).tests
    /\ Get(ds_out.ret).tests["tests/test_a.py"].functions = << >>
    /\ Len(Get(ds_out.ret).tests["tests/test_a.py"].classes["TestX"].tests) = 2
    /\ Get(ds_out.ret).tests["tests/test_a.py"].classes["TestX"].markers = {"slow", "db", "api"}

\* C9: the command builder returns exactly python -m pytest -v target followed
\* by the extra arguments in their order (nothing more when they are absent or
\* empty), for every target, the same vector on each call, and it leaves the
\* caller's list as it was.
C9_BuildCommand ==
    /\ bc_pc # "raised"
    /\ \A i \in 1..Len(bc_out) :
         bc_out[i] = <<"python", "-m", "pytest", "-v", bc_path>>
                       \o (IF IsNone(bc_given) THEN << >> ELSE Get(bc_given))
    /\ bc_pc = "twice" => Len(bc_out) = 2 /\ bc_out[1] = bc_out[2]
    /\ bc_args = bc_given

\* C9 witness: two calls with the ill-formed target "" and two extra arguments
\* have returned a vector ending in the target and the two arguments.
C9_Witness ==
    /\ bc_pc = "twice"
    /\ bc_path = ""
    /\ bc_given = Some(<<"-x", "--tb=short">>)
    /\ bc_out[2] = <<"python", "-m", "pytest", "-v", "", "-x", "--tb=short">>

\* C10: with capture_output false the child is run with capturing disabled and
\* every result has empty stdout and stderr, whatever the child wrote and
\* whatever its exit code.
C10_NoCaptureEmptyStreams ==
    \A c \in Calls : (Returned(c) /\ ~call[c].capture_output) =>
        /\ call[c].run_calls[1].capture_output = FALSE
        /\ Res(c).stdout = ""
        /\ Res(c).stderr = ""

\* C10 witness: a child run without capture wrote to both streams and exited
\* with code 1; the result has neither text.
C10_Witness ==
    \E c \in Calls :
        /\ CompletedNormally(c)
        /\ ~call[c].capture_output
        /\ child[c].out # "" /\ child[c].err # ""
        /\ child[c].returncode = 1
        /\ Res(c).stdout = "" /\ Res(c).stderr = ""

\* The names given to the register_tool calls, and the info of the last call
\* made with a name.
RegisteredNames(calls) == {calls[i][1] : i \in 1..Len(calls)}
LastRegistered(calls, n) ==
    calls[CHOOSE i \in 1..Len(calls) :
            calls[i][1] = n /\ \A j \in (i + 1)..Len(calls) : calls[j][1] # n][2]

\* The list holds exactly the members of S, each once.
ListsEachOnce(list, S) == SeqRange(list) = S /\ Len(list) = Cardinality(S)

\* C23: after any sequence of register_tool calls the registry maps every
\* registered name, and no other, to the info most recently registered under
\* it, and server_info["tools"] and get_server_info().tools list exactly the
\* registered names, each once (no name when nothing was registered).
C23_RegistryHoldsLatest ==
    sv_pc # "off" =>
      LET names == RegisteredNames(sv_calls)
      IN  /\ \A n \in ToolKeys : dict_has(sv_self.tools, n) <=> n \in names
          /\ Len(sv_self.tools) = Cardinality(names)
          /\ \A n \in names : dict_get(sv_self.tools, n) = LastRegistered(sv_calls, n)
          /\ ListsEachOnce(server_info(sv_self).tools, names)
          /\ ListsEachOnce(get_server_info(sv_self).tools, names)
          /\ (sv_reply # << >> /\ sv_reply.op \in {"server_info", "get_server_info"}) =>
                ListsEachOnce(Get(sv_reply.ret).tools,
                              RegisteredNames(SubSeq(sv_calls, 1, sv_reply.at)))

\* C23 witness: one name was registered twice with different infos and
\* get_server_info was then read: it lists the name once and the registry
\* holds the second info.
C23_Witness ==
    /\ sv_pc # "off"
    /\ Len(sv_calls) = 2
    /\ sv_calls[1][1] = sv_calls[2][1]
    /\ sv_calls[1][2] # sv_calls[2][2]
    /\ sv_reply # << >>
    /\ sv_reply.op = "get_server_info"
    /\ sv_reply.at = 2
    /\ Get(sv_reply.ret).tools = <<sv_calls[1][1]>>
    /\ dict_get(sv_self.tools, sv_calls[1][1]) = sv_calls[2][2]

\* s is an initial part of t.
IsPrefix(s, t) == Len(s) <= Len(t) /\ \A i \in 1..Len(s) : s[i] = t[i]

\* C24: run calls startup once, then reaches the running step, then calls
\* shutdown once; shutdown never precedes startup; and once startup has
\* completed shutdown is eventually called, also when the running step raises
\* (a run that returned has made all three calls).
C24_RunBracketsTheRunningStep ==
    /\ [](sv_pc # "off" => IsPrefix(sv_trace, <<"startup", "running", "shutdown">>))
    /\ [](sv_pc = "returned" => sv_trace = <<"startup", "running", "shutdown">>)
    /\ [](sv_pc \in {"try", "finally"} => sv_trace[1] = "startup")
    /\ (sv_pc = "try" ~> (Len(sv_trace) = 3 /\ sv_trace[3] = "shutdown"))

\* C24 witness: the running step raised and shutdown was called all the same;
\* run left with the exception and logged no "running" message.
C24_Witness ==
    /\ sv_pc = "raised"
    /\ sv_trace = <<"startup", "running", "shutdown">>
    /\ sv_exc = Some(LogFailure)
    /\ sv_log = <<"MCP pytest server starting up", "MCP pytest server shutting down">>

\* C30: register_tool does not change what the protocol handlers expose: after
\* any sequence of register_tool calls list_tools returns an empty list and
\* the call-tool handler answers only the name health_check (status healthy,
\* the server's name and version) and raises ValueError "Unknown tool: <name>"
\* for every other name, registered or not.
C30_HandlersIgnoreRegistry ==
    sv_pc # "off" =>
      LET unknown(name) == Some([type |-> "ValueError", message |-> "Unknown tool: " \o name])
          healthy(r) ==
              /\ IsNone(r.exc)
              /\ Get(r.ret).status = "healthy"
              /\ Get(r.ret).server_name = "mcp-pytest-tools"
              /\ Get(r.ret).version = "0.1.0"
          answers(name, r) ==
              IF name = "health_check" THEN healthy(r)
              ELSE IsNone(r.ret) /\ r.exc = unknown(name)
      IN  /\ handle_list_tools(sv_self) = [ret |-> Some(<< >>), exc |-> None]
          /\ \A name \in CallNames : answers(name, handle_call_tool(sv_self, name))
          /\ (sv_reply # << >> /\ sv_reply.op = "list_tools") =>
                IsNone(sv_reply.exc) /\ sv_reply.ret = Some(<< >>)
          /\ (sv_reply # << >> /\ sv_reply.op = "call_tool") =>
                answers(sv_reply.arg, sv_reply)

\* C30 witness: the call-tool handler was asked for a name registered just
\* before, other than health_check, and raised ValueError for it.
C30_Witness ==
    /\ sv_pc # "off"
    /\ sv_reply # << >>
    /\ sv_reply.op = "call_tool"
    /\ sv_reply.arg = "run_test"
    /\ sv_reply.at = Len(sv_calls)
    /\ dict_has(sv_self.tools, "run_test")
    /\ sv_reply.exc = Some([type |-> "ValueError", message |-> "Unknown tool: run_test"])

\* Status texts offered to the result model: the five it names, and others.
StatusTexts ==
    {"passed", "failed", "error", "timeout", "skipped", "", "bogus", "PASSED", "xfailed", "healthy"}

\* C25: every result execute_test returns has a status among passed, failed,
\* error and timeout. The result model accepts skipped too, and rejects every
\* status other than these five, but the driver produces skipped for no exit
\* code.
C25_SkippedNeverProduced ==
    /\ \A c \in Calls : Returned(c) => Res(c).status \in {"passed", "failed", "error", "timeout"}
    /\ \A c \in Calls : CompletedNormally(c) =>
          Res(c).status = StatusFromExitCode(child[c].returncode).status
    /\ \A rc \in ReturnCodes : StatusFromExitCode(rc).status \in {"passed", "failed", "error"}
    /\ \A v \in StatusTexts :
          validate_status(v) <=> v \in {"passed", "failed", "error", "timeout", "skipped"}

\* C25 witness: a child killed by a signal (return code -1) and a result with
\* status error for it; the model would have accepted skipped.
C25_Witness ==
    \E c \in Calls :
        /\ CompletedNormally(c)
        /\ child[c].returncode = -1
        /\ Res(c).exit_code = -1
        /\ Res(c).status = "error"
        /\ validate_status("skipped")

\* C26: execute_test never suspends, so on one event loop a call's spawn, wait
\* and result assembly complete with no other coroutine running in between:
\* two children started from the loop never run at the same time, and a call
\* starts only when every other call has not started or has ended.
C26_CallsOnOneLoopAreSerial ==
    /\ [](\A c, d \in ConcCalls :
            (c # d) => ~(child[c].state = "running" /\ child[d].state = "running"))
    /\ [](\A c, d \in ConcCalls :
            (c # d) => ~(call[c].pc = "waiting" /\ call[d].pc = "waiting"))
    /\ [][\A c, d \in ConcCalls :
            (c # d /\ call[c].pc = "idle" /\ call'[c].pc # "idle") =>
                /\ call[d].pc \in {"idle", "returned", "raised"}
                /\ call'[d] = call[d] /\ child'[d] = child[d]]_vars
    /\ [][\A c, d \in ConcCalls :
            (c # d /\ call[c].pc = "waiting") =>
                call'[d] = call[d] /\ child'[d] = child[d]]_vars

\* C26 witness: the first call has returned with its child exited, and the
\* second call, started after that, is waiting for its running child.
C26_Witness ==
    /\ call[1].pc = "returned"
    /\ child[1].state = "exited"
    /\ call[2].pc = "waiting"
    /\ child[2].state = "running"
    /\ call[2].start_time >= call[1].start_time

\* C27: when the collection child exits with code 0 and its stdout is empty or
\* is no valid JSON, _collect_tests returns the empty test list and raises
\* nothing; RuntimeError "Failed to parse pytest output" is raised for no
\* stdout.
C27_UnparsableOutputIsNoTests ==
    Collected =>
        /\ (ds_child.kind = "exit" /\ ds_child.returncode = 0
              /\ ds_child.stdout \in {"blank", "invalid", "too_deep"}) =>
             /\ ds_pc = "returned"
             /\ _collect_tests(ds_child) = [ret |-> Some(<< >>), exc |-> None]
             /\ Get(ds_out.ret).total_count = 0
        /\ ds_pc = "raised" =>
             ds_out.exc # Some([ type |-> "RuntimeError",
                                 message |-> "Failed to parse pytest output: Expecting value" ])

\* C28: every test _collect_tests returns with a nodeid carries an id: the
\* nodeid when the reported test had no id, the reported id otherwise; every
\* other key is as reported, and the tests are returned in the order reported,
\* none added and none dropped.
C28_NodeidBecomesIdInOrder ==
    (ds_pc = "returned" /\ ds_child.stdout \in {"object_tests", "array"}) =>
        LET given == ds_child.tests
            r == _collect_tests(ds_child)
        IN  /\ IsNone(r.exc)
            /\ Len(Get(r.ret)) = Len(given)
            /\ Get(ds_out.ret).total_count = Len(given)
            /\ \A i \in 1..Len(given) :
                 LET t == Get(r.ret)[i]
                 IN  /\ ~IsNone(t.nodeid) => ~IsNone(t.id)
                     /\ t.id = (IF IsNone(given[i].id) THEN given[i].nodeid ELSE given[i].id)
                     /\ [t EXCEPT !.id = None] = [given[i] EXCEPT !.id = None]

\* C28 witness: two tests were reported, the first with an id of its own and
\* the second without; they are returned in that order, the first with its id
\* and the second with its nodeid as id.
C28_Witness ==
    /\ ds_pc = "returned"
    /\ ds_child.stdout = "array"
    /\ Len(ds_child.tests) = 2
    /\ ds_child.tests[1].id = Some("custom")
    /\ ds_child.tests[2].id = None
    /\ ds_child.tests[2].nodeid = Some("tests/test_a.py::test_one")
    /\ Get(_collect_tests(ds_child).ret)[1].id = Some("custom")
    /\ Get(_collect_tests(ds_child).ret)[2].id = Some("tests/test_a.py::test_one")

\* C29 as stated: in every discover_tests result summary.file_count is the
\* size of summary.files, which is the number of top-level keys of the
\* hierarchy, also when tests carry no path.
C29_SummaryAgreesWithHierarchy ==
    ds_pc = "returned" =>
        LET res == Get(ds_out.ret)
        IN  /\ res.summary.file_count = Cardinality(res.summary.files)
            /\ Cardinality(res.summary.files) = Cardinality(DOMAIN res.tests)

\* C29: in every discover_tests result summary.file_count is the size of
\* summary.files, the set of the paths of the tests that carry one; the
\* top-level keys of the hierarchy are these paths and, when some test carries
\* no path, the key "unknown" besides, which the summary does not count.
C29_SummaryCountsFilesWithPath ==
    ds_pc = "returned" =>
        LET res == Get(ds_out.ret)
            tests == Get(_collect_tests(ds_child).ret)
            withPath == {i \in 1..Len(tests) : ~IsNone(tests[i].path)}
            pathless == withPath # 1..Len(tests)
        IN  /\ res.summary.file_count = Cardinality(res.summary.files)
            /\ res.summary.files = {Get(tests[i].path) : i \in withPath}
            /\ DOMAIN res.tests =
                 res.summary.files \cup (IF pathless THEN {"unknown"} ELSE {})
            /\ Cardinality(DOMAIN res.tests) =
                 res.summary.file_count + (IF pathless THEN 1 ELSE 0)

\* C29 witness: a result for one test with a path and one without: the summary
\* counts one file, the hierarchy has the file and "unknown".
C29_Witness ==
    /\ ds_pc = "returned"
    /\ Len(ds_child.tests) = 2
    /\ Get(ds_out.ret).summary.file_count = 1
    /\ Get(ds_out.ret).summary.files = {"tests/test_a.py"}
    /\ DOMAIN Get(ds_out.ret).tests = {"tests/test_a.py", "unknown"}

====
